---- MODULE Spec2Model ----
(***************************************************************************)
(* State-machine model of the mezon-checkin bot: the framed transport with *)
(* correlated request/response (cid registry), the reconnect controller,   *)
(* the per-user WebRTC session registry with its pending-ICE queue and     *)
(* at-most-once cleanup, the capture loop and the location-confirmation    *)
(* registry with its 60 s timers.                                          *)
(*                                                                         *)
(* Every goroutine of the program is a task of the model; an action is one *)
(* step of a task between two suspension points or lock regions.           *)
(***************************************************************************)
EXTENDS Integers, Sequences, FiniteSets, Bags, TLC

----------------------------------------------------------------------------
(* Bounds of the model *)

MaxCID == 2
MaxFrames == 2
MaxConns == 2

MaxSessions == 1
MaxICE == 2
MaxConfs == 2
MaxReplies == 2
MaxSamples == 6
MaxPages == 3       \* pages of an audio file

\* two tasks call sendWithResponse concurrently (DM sends, clan join)
Callers == {1, 2}

\* the users that call the bot
Users == {1, 2}

\* the user whose calls the session and capture specifications follow
Caller == {1}

----------------------------------------------------------------------------
(* Program constants (internal/client MezonClient) *)

InitialRetryDelay == 5
MaxRetryDelay == 60
MaxRetries == 10

(* Program configuration (DefaultCaptureConfig, main) *)

MaxAttempts == 5
AudioEnabled == TRUE
\* the audio files the deployment registers in the audio library
AudioLibrary == {"welcome", "checkin_success", "checkin_fail"}

----------------------------------------------------------------------------

VARIABLES
    \* ---- transport (MezonClient) ----
    conn,               \* c.conn: 0 is nil, k > 0 the k-th connection dialled
    connGen,            \* number of connections dialled so far
    ctxDone,            \* c.ctx cancelled
    isHardDisconnect,   \* c.isHardDisconnect
    closePc,            \* position of the task running Close()
    loginPc,            \* position of main's initial Login()
    \* ---- tasks started by ConnectWebSocket, one pair per connection ----
    readers,            \* handleMessages tasks: [pc, env, ch, cn]
    pingers,            \* pingPong tasks: "run" or "stopped"
    frames,             \* number of frames read so far
    crashed,            \* an unrecovered panic has ended the process
    \* ---- cid registry ----
    nextCID,            \* c.nextCID
    cidHandlers,        \* c.cidHandlers: cid -> channel
    chans,              \* the response channels ever made: [buf, closed]
    numCalls,           \* number of sendWithResponse calls started
    callPc, callCid, callCh, callRes,   \* the callers of sendWithResponse
    respCount,          \* history: responses returned to callers, per stamped cid
    \* ---- reconnect controller ----
    isRetrying,         \* c.isRetrying
    hdPending,          \* handleDisconnect goroutines spawned and not yet run
    rcPc,               \* position of the task inside reconnectWithBackoff
    retryInterval,      \* seconds
    attempts,
    waits,              \* history: the waits slept in the current loop
    failed,             \* history: attempts of the current loop that failed
    rcErr,              \* what reconnectWithBackoff returns
    reconnected,        \* number of "reconnected" events emitted
    skipped,            \* history: handleDisconnect calls that found a loop running
    hdConn,             \* history: the connection each handleDisconnect call's failure was seen on
    \* ---- DM manager (DMManager) ----
    isDMReady,          \* dm.isDMReady
    readyMu,            \* dm.readyMu: the set of tasks holding the write lock
    dmTask,             \* the constructor, the sendDm calls and the reconnected handlers
    joins,              \* history: the ClanJoin requests written, in order
    dmSends,            \* history: the ChannelMessageSend requests written, in order
    \* ---- WebRTC sessions (WebRTCManager) ----
    connections,        \* w.connections: user -> session (0 is absent)
    sess,               \* the connectionState objects ever made
    tasks,              \* the bag of goroutines of handlers, callbacks, end-calls
    sigCount,           \* signalling envelopes received so far, per type
    preFlip,            \* history: candidates received while iceReady was false
    caPc,               \* position of the task running CloseAll()
    \* ---- location confirmations ----
    pendingConfirmations,   \* w.pendingConfirmations: user -> confirmation (0 absent)
    confs,              \* the confirmationState objects ever made, with their timers
    replies,            \* history: HandleLocationReply calls per user
    lastReply,          \* history: what the last HandleLocationReply of a user found
    locationConfig,     \* w.locationConfig: [Enabled, file, offices]
    \* ---- capture loops ----
    caps,               \* the realtimeFaceDetectionCapture tasks
    capLog              \* history: the time and the recognition POSTs of each capture loop

dmVars == <<isDMReady, readyMu, dmTask, joins, dmSends>>
transportVars == <<conn, connGen, ctxDone, isHardDisconnect, closePc, loginPc>>
taskVars == <<readers, pingers, frames, crashed>>
cidVars == <<nextCID, cidHandlers, chans, numCalls, callPc, callCid, callCh,
             callRes, respCount>>
rcVars == <<isRetrying, hdPending, rcPc, retryInterval, attempts, waits, failed, rcErr,
            reconnected, skipped, hdConn, dmVars>>

sessVars == <<connections, sess, tasks, sigCount, preFlip, caPc>>
confVars == <<pendingConfirmations, confs, replies, lastReply, locationConfig>>
capVars == <<caps, capLog>>
appVars == <<sessVars, confVars, capVars>>

vars == <<transportVars, taskVars, cidVars, rcVars, appVars>>

----------------------------------------------------------------------------
(* fmt.Sprintf("%d", n): the decimal digits of n, most significant first.  *)
(* The empty string is the empty sequence.                                 *)

RECURSIVE FormatCID(_)
FormatCID(n) ==
    IF n < 10 THEN <<n>> ELSE Append(FormatCID(n \div 10), n % 10)

EmptyCID == <<>>

\* the cids a frame of the model can carry
FrameCids == {EmptyCID} \cup {FormatCID(n) : n \in 1..MaxCID}

NoEnv == [cid |-> EmptyCID, kind |-> "none"]

\* generateCID: the value returned and the counter it leaves behind
generateCID(n) == FormatCID(n)

generateCIDNextStuck(n) == n

generateCIDNext(n) == n + 1

\* c.cidHandlers[cid] = responseChan
RegisterCID(h, cid, ch) ==
    [c \in (DOMAIN h) \cup {cid} |-> IF c = cid THEN ch ELSE h[c]]

UnregisterCIDKeep(h, cid) == h

\* delete(c.cidHandlers, cid)
UnregisterCID(h, cid) ==
    [c \in (DOMAIN h) \ {cid} |-> h[c]]

LookupCIDAny(h, cid) ==
    IF DOMAIN h = {} THEN 0 ELSE h[CHOOSE c \in DOMAIN h : TRUE]

\* ch, exists := c.cidHandlers[cid]  (0 when absent)
LookupCID(h, cid) ==
    IF cid \in DOMAIN h THEN h[cid] ELSE 0

Alive == ~crashed

\* IsClosed(): ctx.Done() or isHardDisconnect
IsClosed == ctxDone \/ isHardDisconnect

----------------------------------------------------------------------------
(* Initial state: NewMezonClient has run, nothing is connected             *)

InitTransport ==
    /\ conn = 0
    /\ connGen = 0
    /\ ctxDone = FALSE
    /\ isHardDisconnect = FALSE
    /\ closePc = "idle"
    /\ loginPc = "idle"

InitTasks ==
    /\ readers = <<>>
    /\ pingers = <<>>
    /\ frames = 0
    /\ crashed = FALSE

InitCid ==
    /\ nextCID = 1
    /\ cidHandlers = <<>>
    /\ chans = <<>>
    /\ numCalls = 0
    /\ callPc = [p \in Callers |-> "idle"]
    /\ callCid = [p \in Callers |-> EmptyCID]
    /\ callCh = [p \in Callers |-> 0]
    /\ callRes = [p \in Callers |-> [kind |-> "none", env |-> NoEnv]]
    /\ respCount = [c \in {} |-> 0]

InitRc ==
    /\ isRetrying = FALSE
    /\ hdPending = 0
    /\ rcPc = "idle"
    /\ retryInterval = 0
    /\ attempts = 0
    /\ waits = <<>>
    /\ failed = 0
    /\ rcErr = "none"
    /\ reconnected = 0
    /\ skipped = 0
    /\ hdConn = [pending |-> EmptyBag, loop |-> 0]

----------------------------------------------------------------------------
(* Login(): Authenticate + ConnectWebSocket                                *)

NewReader == [pc |-> "top", env |-> NoEnv, ch |-> 0, cn |-> 0]

\* ConnectWebSocket after a successful dial: c.conn = conn, then
\* go c.handleMessages(); go c.pingPong()
ConnectWebSocket ==
    /\ connGen' = connGen + 1
    /\ conn' = connGen + 1
    /\ readers' = Append(readers, NewReader)
    /\ pingers' = Append(pingers, "run")

\* main: the initial Login succeeds
LoginOk ==
    /\ loginPc = "idle"
    /\ loginPc' = "done"
    /\ ConnectWebSocket
    /\ UNCHANGED <<ctxDone, isHardDisconnect, closePc, frames, crashed>>
    /\ UNCHANGED <<cidVars, rcVars>>
    /\ UNCHANGED appVars

\* main: the initial Login fails and main exits through log.Fatalf
LoginFail ==
    /\ loginPc = "idle"
    /\ loginPc' = "failed"
    /\ UNCHANGED <<conn, connGen, ctxDone, isHardDisconnect, closePc>>
    /\ UNCHANGED <<taskVars, cidVars, rcVars>>
    /\ UNCHANGED appVars

(* Close(): shutdownOnce.Do { isHardDisconnect = true; cancel(); conn = nil } *)
CloseMark ==
    /\ closePc = "idle"
    /\ loginPc = "done"
    /\ Alive
    /\ isHardDisconnect' = TRUE
    /\ closePc' = "hard"
    /\ UNCHANGED <<conn, connGen, ctxDone, loginPc>>
    /\ UNCHANGED <<taskVars, cidVars, rcVars>>
    /\ UNCHANGED appVars

CloseCancel ==
    /\ closePc = "hard"
    /\ ctxDone' = TRUE
    /\ closePc' = "cancelled"
    /\ UNCHANGED <<conn, connGen, isHardDisconnect, loginPc>>
    /\ UNCHANGED <<taskVars, cidVars, rcVars>>
    /\ UNCHANGED appVars

CloseConn ==
    /\ closePc = "cancelled"
    /\ conn' = 0
    /\ closePc' = "done"
    /\ UNCHANGED <<connGen, ctxDone, isHardDisconnect, loginPc>>
    /\ UNCHANGED <<taskVars, cidVars, rcVars>>
    /\ UNCHANGED appVars

----------------------------------------------------------------------------
(* sendWithResponse(envelope, timeout), one task per caller                *)

SetRes(p, k, e) == callRes' = [callRes EXCEPT ![p] = [kind |-> k, env |-> e]]

\* conn snapshot; nil -> "socket connection has not been established yet"
S_Begin(p) ==
    /\ callPc[p] = "idle"
    /\ Alive
    /\ loginPc = "done"
    /\ numCalls < MaxCID
    /\ numCalls' = numCalls + 1
    /\ IF conn = 0
         THEN /\ callPc' = [callPc EXCEPT ![p] = "done"]
              /\ SetRes(p, "notConnected", NoEnv)
         ELSE /\ callPc' = [callPc EXCEPT ![p] = "gen"]
              /\ SetRes(p, "none", NoEnv)
    /\ UNCHANGED <<nextCID, cidHandlers, chans, callCid, callCh, respCount>>
    /\ UNCHANGED <<transportVars, taskVars, rcVars>>
    /\ UNCHANGED appVars

\* cid := c.generateCID(); envelope.Cid = cid
S_Gen(p) ==
    /\ callPc[p] = "gen"
    /\ Alive
    /\ callCid' = [callCid EXCEPT ![p] = generateCID(nextCID)]
    /\ nextCID' = generateCIDNext(nextCID)
    /\ callPc' = [callPc EXCEPT ![p] = "reg"]
    /\ UNCHANGED <<cidHandlers, chans, numCalls, callCh, callRes, respCount>>
    /\ UNCHANGED <<transportVars, taskVars, rcVars>>
    /\ UNCHANGED appVars

\* responseChan := make(chan, 1); c.cidHandlers[cid] = responseChan
S_Register(p) ==
    /\ callPc[p] = "reg"
    /\ Alive
    /\ chans' = Append(chans, [buf |-> <<>>, closed |-> FALSE])
    /\ callCh' = [callCh EXCEPT ![p] = Len(chans) + 1]
    /\ cidHandlers' = RegisterCID(cidHandlers, callCid[p], Len(chans) + 1)
    /\ callPc' = [callPc EXCEPT ![p] = "send"]
    /\ UNCHANGED <<nextCID, numCalls, callCid, callRes, respCount>>
    /\ UNCHANGED <<transportVars, taskVars, rcVars>>
    /\ UNCHANGED appVars

\* proto.Marshal and conn.WriteMessage: either may fail
S_Send(p) ==
    /\ callPc[p] = "send"
    /\ Alive
    /\ \E outcome \in {"ok", "marshalErr", "writeErr"} :
         IF outcome = "ok"
           THEN /\ callPc' = [callPc EXCEPT ![p] = "wait"]
                /\ UNCHANGED callRes
           ELSE /\ callPc' = [callPc EXCEPT ![p] = "unreg"]
                /\ SetRes(p, outcome, NoEnv)
    /\ UNCHANGED <<nextCID, cidHandlers, chans, numCalls, callCid, callCh, respCount>>
    /\ UNCHANGED <<transportVars, taskVars, rcVars>>
    /\ UNCHANGED appVars

\* select case response := <-responseChan
S_RecvResponse(p) ==
    /\ callPc[p] = "wait"
    /\ Alive
    /\ chans[callCh[p]].buf # <<>>
    /\ SetRes(p, "resp", Head(chans[callCh[p]].buf))
    /\ chans' = [chans EXCEPT ![callCh[p]].buf = Tail(@)]
    /\ respCount' =
         [c \in (DOMAIN respCount) \cup {callCid[p]} |->
            IF c = callCid[p]
              THEN (IF c \in DOMAIN respCount THEN respCount[c] ELSE 0) + 1
              ELSE respCount[c]]
    /\ callPc' = [callPc EXCEPT ![p] = "unreg"]
    /\ UNCHANGED <<nextCID, cidHandlers, numCalls, callCid, callCh>>
    /\ UNCHANGED <<transportVars, taskVars, rcVars>>
    /\ UNCHANGED appVars

\* select case <-time.After(timeout)
S_Timeout(p) ==
    /\ callPc[p] = "wait"
    /\ Alive
    /\ SetRes(p, "timeout", NoEnv)
    /\ callPc' = [callPc EXCEPT ![p] = "unreg"]
    /\ UNCHANGED <<nextCID, cidHandlers, chans, numCalls, callCid, callCh, respCount>>
    /\ UNCHANGED <<transportVars, taskVars, rcVars>>
    /\ UNCHANGED appVars

\* select case <-c.ctx.Done()
S_Cancelled(p) ==
    /\ callPc[p] = "wait"
    /\ Alive
    /\ ctxDone
    /\ SetRes(p, "cancelled", NoEnv)
    /\ callPc' = [callPc EXCEPT ![p] = "unreg"]
    /\ UNCHANGED <<nextCID, cidHandlers, chans, numCalls, callCid, callCh, respCount>>
    /\ UNCHANGED <<transportVars, taskVars, rcVars>>
    /\ UNCHANGED appVars

\* deferred: delete(c.cidHandlers, cid)
S_Unregister(p) ==
    /\ callPc[p] = "unreg"
    /\ Alive
    /\ cidHandlers' = UnregisterCID(cidHandlers, callCid[p])
    /\ callPc' = [callPc EXCEPT ![p] = "close"]
    /\ UNCHANGED <<nextCID, chans, numCalls, callCid, callCh, callRes, respCount>>
    /\ UNCHANGED <<transportVars, taskVars, rcVars>>
    /\ UNCHANGED appVars

\* deferred: close(responseChan); the call returns.  Nothing receives from
\* the channel any more, so what its buffer still holds is dropped here.
S_CloseChan(p) ==
    /\ callPc[p] = "close"
    /\ Alive
    /\ chans' = [chans EXCEPT ![callCh[p]] = [buf |-> <<>>, closed |-> TRUE]]
    /\ callPc' = [callPc EXCEPT ![p] = "done"]
    /\ UNCHANGED <<nextCID, cidHandlers, numCalls, callCid, callCh, callRes, respCount>>
    /\ UNCHANGED <<transportVars, taskVars, rcVars>>
    /\ UNCHANGED appVars

\* the caller goes on; it may call sendWithResponse again
S_Return(p) ==
    /\ callPc[p] = "done"
    /\ Alive
    /\ callPc' = [callPc EXCEPT ![p] = "idle"]
    /\ callCid' = [callCid EXCEPT ![p] = EmptyCID]
    /\ callCh' = [callCh EXCEPT ![p] = 0]
    /\ SetRes(p, "none", NoEnv)
    /\ UNCHANGED <<nextCID, cidHandlers, chans, numCalls, respCount>>
    /\ UNCHANGED <<transportVars, taskVars, rcVars>>
    /\ UNCHANGED appVars

----------------------------------------------------------------------------
(* handleMessages / processProtobufMessage / resolveCID: the reader tasks  *)

SetReader(k, r) == readers' = [readers EXCEPT ![k] = r]

\* loop head: return on ctx.Done(); conn := c.conn; return when nil
R_Top(k) ==
    /\ k \in DOMAIN readers
    /\ readers[k].pc = "top"
    /\ Alive
    /\ IF ctxDone \/ conn = 0
         THEN SetReader(k, [NewReader EXCEPT !.pc = "stopped"])
         ELSE SetReader(k, [NewReader EXCEPT !.pc = "read", !.cn = conn])
    /\ UNCHANGED <<pingers, frames, crashed>>
    /\ UNCHANGED <<transportVars, cidVars, rcVars>>
    /\ UNCHANGED appVars

\* conn.ReadMessage() returns a binary frame; a non-empty cid goes to
\* resolveCID, an empty one to handleEnvelopeMessage (Pong: log only)
ReadFrame(k) ==
    /\ k \in DOMAIN readers
    /\ readers[k].pc = "read"
    /\ readers[k].cn = conn
    /\ Alive
    /\ frames < MaxFrames
    /\ frames' = frames + 1
    /\ \E c \in FrameCids, v \in {"ack", "error"} :
         IF c # EmptyCID
           THEN SetReader(k, [readers[k] EXCEPT !.pc = "lookup",
                                               !.env = [cid |-> c, kind |-> v]])
           ELSE SetReader(k, NewReader)
    /\ UNCHANGED <<pingers, crashed>>
    /\ UNCHANGED <<transportVars, cidVars, rcVars>>
    /\ UNCHANGED appVars

\* resolveCID: ch, exists := c.cidHandlers[cid] under the read lock
ResolveLookup(k) ==
    /\ k \in DOMAIN readers
    /\ readers[k].pc = "lookup"
    /\ Alive
    /\ LET ch == LookupCID(cidHandlers, readers[k].env.cid) IN
         IF ch = 0
           THEN SetReader(k, NewReader)
           ELSE SetReader(k, [readers[k] EXCEPT !.pc = "deliver", !.ch = ch])
    /\ UNCHANGED <<pingers, frames, crashed>>
    /\ UNCHANGED <<transportVars, cidVars, rcVars>>
    /\ UNCHANGED appVars

\* resolveCID: select case ch <- envelope.  A send on a closed channel
\* panics; the reader goroutine has no recover, the process dies.
ResolveDeliver(k) ==
    /\ k \in DOMAIN readers
    /\ readers[k].pc = "deliver"
    /\ Alive
    /\ IF chans[readers[k].ch].closed
         THEN /\ crashed' = TRUE
              /\ SetReader(k, [readers[k] EXCEPT !.pc = "panicked"])
              /\ UNCHANGED chans
         ELSE /\ Len(chans[readers[k].ch].buf) < 1
              /\ chans' = [chans EXCEPT ![readers[k].ch].buf = Append(@, readers[k].env)]
              /\ SetReader(k, NewReader)
              /\ UNCHANGED crashed
    /\ UNCHANGED <<pingers, frames>>
    /\ UNCHANGED <<nextCID, cidHandlers, numCalls, callPc, callCid, callCh,
                   callRes, respCount>>
    /\ UNCHANGED <<transportVars, rcVars>>
    /\ UNCHANGED appVars

\* resolveCID: select case <-time.After(100ms), the slot stayed full
ResolveDrop(k) ==
    /\ k \in DOMAIN readers
    /\ readers[k].pc = "deliver"
    /\ Alive
    /\ ~chans[readers[k].ch].closed
    /\ Len(chans[readers[k].ch].buf) >= 1
    /\ SetReader(k, NewReader)
    /\ UNCHANGED <<pingers, frames, crashed>>
    /\ UNCHANGED <<transportVars, cidVars, rcVars>>
    /\ UNCHANGED appVars

----------------------------------------------------------------------------
(* Reconnect controller: handleMessages' error path, pingPong,             *)
(* handleDisconnect, reconnectWithBackoff, attemptReconnect                *)

calculateNextRetryIntervalNoCap(current, max) == current * 2

\* next := current * 2; if next > max { return max }; return next
calculateNextRetryInterval(current, max) ==
    IF current * 2 > max THEN max ELSE current * 2

----------------------------------------------------------------------------
(* The DM manager: lazy join of the DM clan, sendDm, the reconnected event *)

MaxSenders == 2

\* for i := 0; i < 10; i++ { time.Sleep(500 * time.Millisecond) ...
MaxPolls == 10

\* the tasks: the sendDm calls, the constructor, and one handler per event
DmSenders == 1..MaxSenders
Ctor == MaxSenders + 1
HandlerOf(e) == Ctor + e

\* readyMu is the set of its holders: empty when free
NoTask == {}
DmHandlers == {HandlerOf(e) : e \in 1..MaxConns}
DmTasks == {Ctor} \cup DmSenders \cup DmHandlers

rcOwn == <<isRetrying, hdPending, rcPc, retryInterval, attempts, waits, failed, rcErr,
           reconnected, skipped, hdConn>>

\* return c.conn != nil && !hardDisconnect
IsConnected == conn # 0 /\ ~isHardDisconnect

NewDmTask(pc) == [pc |-> pc, polls |-> 0, err |-> "none", down |-> FALSE]

\* NewDMManager has not been called, no sendDm call has started, no
\* reconnected event has been emitted
InitDm ==
    /\ isDMReady = FALSE
    /\ readyMu = NoTask
    /\ dmTask = [t \in DmTasks |->
                   NewDmTask(IF t = Ctor THEN "new"
                             ELSE IF t \in DmSenders THEN "idle" ELSE "none")]
    /\ joins = <<>>
    /\ dmSends = <<>>

\* client.On("reconnected", ...) follows the constructor's ensureDMReady
DmBuilt == dmTask[Ctor].pc \in {"done", "failed"}

\* where a task goes when ensureDMReady returns nil: sendDm goes on to its
\* connection check, the constructor and the handler are done
AfterEnsure(t) == IF t \in DmSenders THEN "check" ELSE "done"

Returns(t, e) == [dmTask EXCEPT ![t].pc = "failed", ![t].err = e]

\* the connections on which a ClanJoin has been acknowledged
JoinedOn(c) == \E n \in DOMAIN joins : joins[n].cn = c /\ joins[n].res = "ok"

\* the ClanJoin a task is waiting for
JoinOf(t) == CHOOSE n \in DOMAIN joins : joins[n].by = t /\ joins[n].res = "flight"

\* main: NewWebRTCManager, after Login has succeeded, calls NewDMManager,
\* which calls ensureDMReady
NewDMManager ==
    /\ dmTask[Ctor].pc = "new"
    /\ loginPc = "done"
    /\ Alive
    /\ dmTask' = [dmTask EXCEPT ![Ctor].pc = "ensure"]
    /\ UNCHANGED <<isDMReady, readyMu, joins, dmSends>>
    /\ UNCHANGED <<transportVars, taskVars, cidVars, rcOwn>>
    /\ UNCHANGED appVars

\* SendDMWithContext is called
SendDMWithContext(t) ==
    /\ t \in DmSenders
    /\ dmTask[t].pc = "idle"
    /\ DmBuilt
    /\ Alive
    /\ dmTask' = [dmTask EXCEPT ![t].pc = "ensure", ![t].down = ~IsConnected]
    /\ UNCHANGED <<isDMReady, readyMu, joins, dmSends>>
    /\ UNCHANGED <<transportVars, taskVars, cidVars, rcOwn>>
    /\ UNCHANGED appVars

\* the reconnected handler: dm.isDMReady = false, outside readyMu
ReconnectedHandler(t) ==
    /\ t \in DmHandlers
    /\ dmTask[t].pc = "reset"
    /\ Alive
    /\ isDMReady' = FALSE
    /\ dmTask' = [dmTask EXCEPT ![t].pc = "ensure"]
    /\ UNCHANGED <<readyMu, joins, dmSends>>
    /\ UNCHANGED <<transportVars, taskVars, cidVars, rcOwn>>
    /\ UNCHANGED appVars

\* ensureDMReady, fast path: under RLock, return nil when isDMReady
ensureDMReadyFast(t) ==
    /\ t \in DmTasks
    /\ dmTask[t].pc = "ensure"
    /\ Alive
    /\ dmTask' = [dmTask EXCEPT ![t].pc = IF isDMReady THEN AfterEnsure(t) ELSE "lock"]
    /\ UNCHANGED <<isDMReady, readyMu, joins, dmSends>>
    /\ UNCHANGED <<transportVars, taskVars, cidVars, rcOwn>>
    /\ UNCHANGED appVars

NeverReadyUnderLock == FALSE

\* Double-check after acquiring lock: if dm.isDMReady { return nil }
ReadyUnderLock == isDMReady

\* ensureDMReady, slow path: readyMu.Lock(), the double check, and the
\* IsConnected test; the lock is kept for the join
ensureDMReadyLock(t) ==
    /\ t \in DmTasks
    /\ dmTask[t].pc = "lock"
    /\ readyMu = NoTask
    /\ Alive
    /\ IF ReadyUnderLock
         THEN /\ dmTask' = [dmTask EXCEPT ![t].pc = AfterEnsure(t)]
              /\ UNCHANGED readyMu
         ELSE IF ~IsConnected
           THEN /\ dmTask' = Returns(t, "notReady")
                /\ UNCHANGED readyMu
           ELSE /\ dmTask' = [dmTask EXCEPT ![t].pc = "join"]
                /\ readyMu' = {t}
    /\ UNCHANGED <<isDMReady, joins, dmSends>>
    /\ UNCHANGED <<transportVars, taskVars, cidVars, rcOwn>>
    /\ UNCHANGED appVars

\* joinClanInternal: the IsConnected test, then sendWithResponse writes the
\* ClanJoin envelope to c.conn
joinClanInternal(t) ==
    /\ t \in DmTasks
    /\ dmTask[t].pc = "join"
    /\ Alive
    /\ IF IsConnected
         THEN /\ joins' = Append(joins, [by |-> t, cn |-> conn, res |-> "flight"])
              /\ dmTask' = [dmTask EXCEPT ![t].pc = "await"]
              /\ UNCHANGED readyMu
         ELSE /\ dmTask' = Returns(t, "join")
              /\ readyMu' = NoTask
              /\ UNCHANGED joins
    /\ UNCHANGED <<isDMReady, dmSends>>
    /\ UNCHANGED <<transportVars, taskVars, cidVars, rcOwn>>
    /\ UNCHANGED appVars

\* joinClanInternal: the response arrives on the connection the request was
\* written to and dm.isDMReady = true; or sendWithResponse returns an
\* error (a server error, the 10 s timeout, the client closed)
joinClanResponse(t, ok) ==
    /\ t \in DmTasks
    /\ dmTask[t].pc = "await"
    /\ Alive
    /\ ok => joins[JoinOf(t)].cn = conn
    /\ joins' = [joins EXCEPT ![JoinOf(t)].res = IF ok THEN "ok" ELSE "err"]
    /\ isDMReady' = IF ok THEN TRUE ELSE isDMReady
    /\ dmTask' = IF ok THEN [dmTask EXCEPT ![t].pc = AfterEnsure(t)]
                       ELSE Returns(t, "join")
    /\ readyMu' = NoTask
    /\ UNCHANGED dmSends
    /\ UNCHANGED <<transportVars, taskVars, cidVars, rcOwn>>
    /\ UNCHANGED appVars

\* SendDMWithContext: if !dm.client.IsConnected() { wait for reconnection }
SendDMCheck(t) ==
    /\ t \in DmSenders
    /\ dmTask[t].pc = "check"
    /\ Alive
    /\ dmTask' = [dmTask EXCEPT ![t].pc = IF IsConnected THEN "send" ELSE "poll"]
    /\ UNCHANGED <<isDMReady, readyMu, joins, dmSends>>
    /\ UNCHANGED <<transportVars, taskVars, cidVars, rcOwn>>
    /\ UNCHANGED appVars

\* one round of the wait: time.Sleep(500 ms); if IsConnected() { break }
SendDMPoll(t) ==
    /\ t \in DmSenders
    /\ dmTask[t].pc = "poll"
    /\ Alive
    /\ dmTask' = [dmTask EXCEPT
                    ![t].polls = @ + 1,
                    ![t].pc = IF IsConnected \/ dmTask[t].polls + 1 = MaxPolls
                                THEN "recheck" ELSE "poll"]
    /\ UNCHANGED <<isDMReady, readyMu, joins, dmSends>>
    /\ UNCHANGED <<transportVars, taskVars, cidVars, rcOwn>>
    /\ UNCHANGED appVars

\* after the wait: if !dm.client.IsConnected() { return error }
SendDMRecheck(t) ==
    /\ t \in DmSenders
    /\ dmTask[t].pc = "recheck"
    /\ Alive
    /\ dmTask' = IF IsConnected THEN [dmTask EXCEPT ![t].pc = "send"]
                                ELSE Returns(t, "notConnected")
    /\ UNCHANGED <<isDMReady, readyMu, joins, dmSends>>
    /\ UNCHANGED <<transportVars, taskVars, cidVars, rcOwn>>
    /\ UNCHANGED appVars

\* sendDMMessage: sendWithResponse writes the ChannelMessageSend envelope to
\* c.conn, or fails when there is none; the wait for the ack is not modelled
sendDMMessage(t) ==
    /\ t \in DmSenders
    /\ dmTask[t].pc = "send"
    /\ Alive
    /\ IF conn # 0
         THEN /\ dmSends' = Append(dmSends, [by |-> t, cn |-> conn,
                                             joined |-> JoinedOn(conn)])
              /\ dmTask' = [dmTask EXCEPT ![t].pc = "done"]
         ELSE /\ dmTask' = Returns(t, "send")
              /\ UNCHANGED dmSends
    /\ UNCHANGED <<isDMReady, readyMu, joins>>
    /\ UNCHANGED <<transportVars, taskVars, cidVars, rcOwn>>
    /\ UNCHANGED appVars

\* emit("reconnected"): the handler registered by NewDMManager is started in
\* a goroutine of its own; before the registration the event has no handler
EmitReconnected ==
    IF DmBuilt
      THEN dmTask' = [dmTask EXCEPT ![HandlerOf(reconnected + 1)].pc = "reset"]
      ELSE UNCHANGED dmTask

----------------------------------------------------------------------------
\* go c.handleDisconnect(): the call takes no argument; the history keeps the
\* connection (0 is nil) on which its caller saw the failure
Spawned(c) == [hdConn EXCEPT !.pending = @ (+) SetToBag({c})]

\* conn.ReadMessage() fails (the connection was closed or the network
\* dropped): return when IsClosed(), else go c.handleDisconnect(); return
ReadError(k) ==
    /\ k \in DOMAIN readers
    /\ readers[k].pc = "read"
    /\ Alive
    /\ SetReader(k, [NewReader EXCEPT !.pc = "stopped"])
    /\ hdPending' = IF IsClosed THEN hdPending ELSE hdPending + 1
    /\ hdConn' = IF IsClosed THEN hdConn ELSE Spawned(readers[k].cn)
    /\ UNCHANGED <<pingers, frames, crashed>>
    /\ UNCHANGED <<isRetrying, rcPc, retryInterval, attempts, waits, failed, rcErr, reconnected, skipped>>
    /\ UNCHANGED dmVars
    /\ UNCHANGED <<transportVars, cidVars>>
    /\ UNCHANGED appVars

\* pingPong: case <-c.ctx.Done(), or a tick that finds IsClosed()
P_Stop(k) ==
    /\ k \in DOMAIN pingers
    /\ pingers[k] = "run"
    /\ Alive
    /\ IsClosed
    /\ pingers' = [pingers EXCEPT ![k] = "stopped"]
    /\ UNCHANGED <<readers, frames, crashed>>
    /\ UNCHANGED <<transportVars, cidVars, rcVars>>
    /\ UNCHANGED appVars

\* pingPong: a tick whose sendPing fails (c.conn is nil or the write fails):
\* go c.handleDisconnect(); return
P_Fail(k) ==
    /\ k \in DOMAIN pingers
    /\ pingers[k] = "run"
    /\ Alive
    /\ ~IsClosed
    /\ pingers' = [pingers EXCEPT ![k] = "stopped"]
    /\ hdPending' = hdPending + 1
    /\ hdConn' = Spawned(conn)
    /\ UNCHANGED <<readers, frames, crashed>>
    /\ UNCHANGED <<isRetrying, rcPc, retryInterval, attempts, waits, failed, rcErr, reconnected, skipped>>
    /\ UNCHANGED dmVars
    /\ UNCHANGED <<transportVars, cidVars>>
    /\ UNCHANGED appVars

ReturnsAtOnceWhenClosed == isHardDisconnect \/ IsClosed

\* if c.isRetrying || c.isHardDisconnect || c.IsClosed() { return }
ReturnsAtOnce == isRetrying \/ isHardDisconnect \/ IsClosed

\* handleDisconnect, first lock region: return when a loop is running or the
\* client is closed, else isRetrying = true and enter reconnectWithBackoff
HD_Enter ==
    /\ hdPending > 0
    /\ Alive
    /\ hdPending' = hdPending - 1
    /\ skipped' = IF rcPc # "idle" THEN skipped + 1 ELSE skipped
    /\ \E c \in BagToSet(hdConn.pending) :
           hdConn' = [pending |-> hdConn.pending (-) SetToBag({c}),
                      loop |-> IF ReturnsAtOnce THEN hdConn.loop ELSE c]
    /\ IF ReturnsAtOnce
         THEN UNCHANGED <<isRetrying, rcPc, retryInterval, attempts, waits, failed, rcErr>>
         ELSE /\ isRetrying' = TRUE
              /\ rcPc' = "loop"
              /\ retryInterval' = InitialRetryDelay
              /\ attempts' = 0
              /\ waits' = <<>>
              /\ failed' = 0
              /\ rcErr' = "none"
    /\ UNCHANGED <<reconnected, dmVars>>
    /\ UNCHANGED <<transportVars, taskVars, cidVars>>
    /\ UNCHANGED appVars

\* for attempts < MaxRetries { if c.IsClosed() { return nil }; attempts++ ...
RC_LoopHead ==
    /\ rcPc = "loop"
    /\ Alive
    /\ IF attempts >= MaxRetries
         THEN /\ rcErr' = "maxAttempts"
              /\ rcPc' = "exit"
              /\ UNCHANGED attempts
         ELSE IF IsClosed
           THEN /\ rcErr' = "nil"
                /\ rcPc' = "exit"
                /\ UNCHANGED attempts
           ELSE /\ attempts' = attempts + 1
                /\ rcPc' = "wait"
                /\ UNCHANGED rcErr
    /\ UNCHANGED <<isRetrying, hdPending, retryInterval, waits, failed, reconnected, skipped, hdConn, dmVars>>
    /\ UNCHANGED <<transportVars, taskVars, cidVars>>
    /\ UNCHANGED appVars

\* select case <-time.After(retryInterval)
RC_WaitElapsed ==
    /\ rcPc = "wait"
    /\ Alive
    /\ waits' = Append(waits, retryInterval)
    /\ rcPc' = "attempt"
    /\ UNCHANGED <<isRetrying, hdPending, retryInterval, attempts, failed, rcErr, reconnected, skipped, hdConn, dmVars>>
    /\ UNCHANGED <<transportVars, taskVars, cidVars>>
    /\ UNCHANGED appVars

\* select case <-c.ctx.Done(): return nil
RC_WaitCancelled ==
    /\ rcPc = "wait"
    /\ Alive
    /\ ctxDone
    /\ rcErr' = "nil"
    /\ rcPc' = "exit"
    /\ UNCHANGED <<isRetrying, hdPending, retryInterval, attempts, waits, failed, reconnected, skipped, hdConn, dmVars>>
    /\ UNCHANGED <<transportVars, taskVars, cidVars>>
    /\ UNCHANGED appVars

\* attemptReconnect: close the old connection if there is one
RC_AttemptClose ==
    /\ rcPc = "attempt"
    /\ Alive
    /\ conn' = 0
    /\ rcPc' = "login"
    /\ UNCHANGED <<connGen, ctxDone, isHardDisconnect, closePc, loginPc>>
    /\ UNCHANGED <<isRetrying, hdPending, retryInterval, attempts, waits, failed, rcErr, reconnected, skipped, hdConn, dmVars>>
    /\ UNCHANGED <<taskVars, cidVars>>
    /\ UNCHANGED appVars

\* attemptReconnect: c.Login() succeeds
RC_LoginOk ==
    /\ rcPc = "login"
    /\ Alive
    /\ connGen < MaxConns
    /\ ConnectWebSocket
    /\ rcPc' = "emit"
    /\ UNCHANGED <<ctxDone, isHardDisconnect, closePc, loginPc, frames, crashed>>
    /\ UNCHANGED <<isRetrying, hdPending, retryInterval, attempts, waits, failed, rcErr, reconnected, skipped, hdConn, dmVars>>
    /\ UNCHANGED cidVars
    /\ UNCHANGED appVars

\* attemptReconnect: c.Login() fails; the interval is doubled up to the cap
RC_LoginFail ==
    /\ rcPc = "login"
    /\ Alive
    /\ retryInterval' = calculateNextRetryInterval(retryInterval, MaxRetryDelay)
    /\ failed' = failed + 1
    /\ rcPc' = "loop"
    /\ UNCHANGED <<isRetrying, hdPending, attempts, waits, rcErr, reconnected, skipped, hdConn, dmVars>>
    /\ UNCHANGED <<transportVars, taskVars, cidVars>>
    /\ UNCHANGED appVars

\* c.emit("reconnected", nil); return nil.  The event has one subscriber,
\* the DM manager, which renews its DM channels; nothing subscribes for the
\* WebRTC manager, whose registries the event leaves alone.
RC_Emit ==
    /\ rcPc = "emit"
    /\ Alive
    /\ reconnected' = reconnected + 1
    /\ rcErr' = "nil"
    /\ rcPc' = "exit"
    /\ EmitReconnected
    /\ UNCHANGED <<isRetrying, hdPending, retryInterval, attempts, waits, failed,
                   skipped, hdConn>>
    /\ UNCHANGED <<isDMReady, readyMu, joins, dmSends>>
    /\ UNCHANGED <<transportVars, taskVars, cidVars>>
    /\ UNCHANGED appVars

\* handleDisconnect, last lock region: isRetrying = false
HD_Exit ==
    /\ rcPc = "exit"
    /\ Alive
    /\ isRetrying' = FALSE
    /\ rcPc' = "idle"
    /\ UNCHANGED <<hdPending, retryInterval, attempts, waits, failed, rcErr, reconnected, skipped, hdConn, dmVars>>
    /\ UNCHANGED <<transportVars, taskVars, cidVars>>
    /\ UNCHANGED appVars

----------------------------------------------------------------------------
(* WebRTC sessions: the objects                                            *)

SignalTypes == {"offer", "ice", "quit"}

InitSess ==
    /\ connections = [u \in Users |-> 0]
    /\ sess = <<>>
    /\ tasks = EmptyBag
    /\ sigCount = [type \in SignalTypes |-> 0]
    /\ preFlip = {}
    /\ caPc = "idle"

\* handleOffer's &connectionState{...}; added, body, taken and epoch are
\* history: the candidates handed to pc.AddICECandidate, the runs of the
\* cleanup body, the cleanupConnection calls that found this state and the
\* number of transport connections dialled when the state was made; id is
\* the state's place in sess and takenFrom the sessions whose goroutines
\* deleted this state from the registry; queued is history: the candidates
\* ever appended to pendingICE, in the order of the appends; offerFailed:
\* a step of the offer handler failed after the registration.
\* player, queue, worker, item and apMu are the AudioPlayer of the state:
\* its queue channel, the position of its processQueue goroutine, the item
\* that goroutine holds and whether a PlayNow caller holds ap.mu; played is
\* history: the items playAudio has begun to play; page counts the pages of
\* the item streamOGG has written, late (history) those it wrote while an
\* item queued by PlayNow was waiting
NewSession(u) ==
    [user |-> u, epoch |-> connGen, iceReady |-> FALSE, pendingICE |-> <<>>, added |-> <<>>,
     ctx |-> "live", audioStop |-> 0, pcClose |-> 0, quit |-> 0,
     body |-> 0, taken |-> 0, cleanupOnce |-> FALSE, endCallOnce |-> FALSE,
     player |-> FALSE, queue |-> <<>>,
     worker |-> "none", item |-> "none", apMu |-> FALSE, welcomed |-> FALSE,
     played |-> {}, id |-> Len(sess) + 1, takenFrom |-> {}, queued |-> <<>>,
     page |-> 0, late |-> 0,
     offerFailed |-> FALSE,
     negotiated |-> FALSE, answered |-> FALSE, pcFailed |-> FALSE,
     track |-> FALSE]

\* a goroutine: sid is the state it holds, cand the candidate it carries,
\* pend its local pendingCandidates; from is history: the session whose
\* handler, callback or capture loop started it (0 when none did)
NewTask(k, u, pc) ==
    [kind |-> k, user |-> u, pc |-> pc, sid |-> 0, cand |-> 0, pend |-> <<>>,
     from |-> 0]

StartedBy(t, sid) == [t EXCEPT !.from = sid]

\* a goroutine starts, a goroutine returns
Put(ts, t) == ts (+) SetToBag({t})

Take(ts, t) == ts (-) SetToBag({t})

EndCallTaskNever(u) == NewTask("endcall", u, "e_never")

\* go w.endCallAfterDelay(userID, reason, delay)
EndCallTask(u) == NewTask("endcall", u, "e_lookup")

\* ap.Play(item): the select takes the queue when there is room and may
\* take the closed stop channel instead; a full queue skips the item
Play(q, item, stopClosed) ==
    (IF Len(q) < 10 THEN {Append(q, item)} ELSE {})
        \cup (IF stopClosed \/ Len(q) >= 10 THEN {q} ELSE {})

\* ap.PlayNow(item): empty the queue, then Play
PlayNow(q, item, stopClosed) == Play(<<>>, item, stopClosed)

\* the caller of PlayNow where it waits: for ap.mu ("pn_lock") or, holding
\* ap.mu, in the receive of its drain loop ("pn_recv")
PlayNowTask(u, sid, pc) == [NewTask("playnow", u, pc) EXCEPT !.sid = sid]

\* playCheckinFailAudio(userID): the triples <<sess, tasks, returned>> it can
\* leave.  PlayNow runs to its end when ap.mu is free and the queue is
\* empty; otherwise its caller waits for ap.mu or enters the drain loop
playCheckinFailAudio(u, ss, ts) ==
    LET sid == connections[u] IN
    IF ~AudioEnabled \/ sid = 0 \/ "checkin_fail" \notin AudioLibrary
        THEN {<<ss, Put(ts, EndCallTask(u)), TRUE>>}
    ELSE IF ~ss[sid].player
        THEN {<<ss, Put(ts, EndCallTask(u)), TRUE>>}
    ELSE IF ss[sid].apMu
        THEN {<<ss, Put(ts, PlayNowTask(u, sid, "pn_lock")), FALSE>>}
    ELSE IF ss[sid].queue # <<>>
        THEN {<<[ss EXCEPT ![sid].apMu = TRUE],
                Put(ts, PlayNowTask(u, sid, "pn_recv")), FALSE>>}
    ELSE {<<[ss EXCEPT ![sid].queue = q], ts, TRUE>> :
              q \in PlayNow(ss[sid].queue, "checkin_fail", ss[sid].audioStop > 0)}

----------------------------------------------------------------------------
(* Office locations (location.go).  Coordinates are whole grid units on a  *)
(* patch around (0,0) small enough that the great circle between two of   *)
(* its points is a straight line.  A distance is kept as its square, and  *)
(* a radius is squared where the two are compared, so no root is taken.   *)

MaxOffices == 2     \* offices in the offices file

\* where the offices of the file can lie, in each direction
OfficeCoords == {0, 1, 2}

\* an entry of the offices file
Office(lat, lon, r, e) ==
    [Latitude |-> lat, Longitude |-> lon, RadiusMeters |-> r, Enabled |-> e]

OfficeRadii == {1, 2}

FileOffices ==
    {Office(lat, lon, r, e) : lat \in OfficeCoords, lon \in OfficeCoords,
                              r \in OfficeRadii, e \in BOOLEAN}

RECURSIVE SeqsUpTo(_, _)
SeqsUpTo(S, n) ==
    IF n = 0 THEN {<<>>}
    ELSE LET shorter == SeqsUpTo(S, n - 1)
         IN shorter \cup {Append(q, x) : q \in {t \in shorter : Len(t) = n - 1},
                                         x \in S}

OfficeFiles == SeqsUpTo(FileOffices, MaxOffices)

\* the loop of LoadOffices: the enabled entries, in file order
RECURSIVE EnabledOffices(_)
EnabledOffices(file) ==
    IF file = <<>> THEN <<>>
    ELSE IF Head(file).Enabled THEN <<Head(file)>> \o EnabledOffices(Tail(file))
    ELSE EnabledOffices(Tail(file))

\* LoadOffices: nothing is read when validation is disabled
LoadOffices(enabled, file) ==
    [Enabled |-> enabled, file |-> IF enabled THEN file ELSE <<>>,
     offices |-> IF enabled THEN EnabledOffices(file) ELSE <<>>]

\* LoadOffices returns an error, and NewWebRTCManager with it, when
\* validation is enabled and the file has no enabled office
LoadOfficesFails(enabled, file) == enabled /\ EnabledOffices(file) = <<>>

LocationConfigs ==
    {LoadOffices(c[1], c[2]) :
        c \in {d \in BOOLEAN \X OfficeFiles : ~LoadOfficesFails(d[1], d[2])}}

\* main's configuration: validation enabled, one office read from the file
DefaultLocationConfig == LoadOffices(TRUE, <<Office(1, 1, 1, TRUE)>>)

\* calculateDistance(lat1, lon1, lat2, lon2), squared
calculateDistance(lat1, lon1, lat2, lon2) ==
    (lat2 - lat1) * (lat2 - lat1) + (lon2 - lon1) * (lon2 - lon1)

\* findNearestOffice's nil
NilMatch == [nil |-> TRUE, Index |-> 0, Distance |-> 0, IsValid |-> FALSE]

\* &LocationMatch{Office, Distance, IsValid: distance <= office.RadiusMeters}
LocationMatch(office, k, lat, lon) ==
    LET distance == calculateDistance(lat, lon, office.Latitude, office.Longitude)
    IN [nil |-> FALSE, Index |-> k, Distance |-> distance,
        IsValid |-> distance <= office.RadiusMeters * office.RadiusMeters]

ReplacesBestIfValid(bestMatch, match) == bestMatch.nil \/ match.IsValid

\* if bestMatch == nil || distance < bestMatch.Distance
ReplacesBest(bestMatch, match) ==
    bestMatch.nil \/ match.Distance < bestMatch.Distance

\* bestMatch after the first k rounds of findNearestOffice's loop
RECURSIVE bestMatchAfter(_, _, _, _)
bestMatchAfter(offices, k, lat, lon) ==
    IF k = 0 THEN NilMatch
    ELSE LET bestMatch == bestMatchAfter(offices, k - 1, lat, lon)
             match == LocationMatch(offices[k], k, lat, lon)
         IN IF ReplacesBest(bestMatch, match) THEN match ELSE bestMatch

\* findNearestOffice(lat, lon)
findNearestOffice(cfg, lat, lon) ==
    IF Len(cfg.offices) = 0 THEN NilMatch
    ELSE bestMatchAfter(cfg.offices, Len(cfg.offices), lat, lon)

\* validateLocation(lat, lon)
validateLocation(cfg, lat, lon) ==
    IF ~cfg.Enabled THEN TRUE
    ELSE IF lat = 0 /\ lon = 0 THEN FALSE
    ELSE IF lat < -90 \/ lat > 90 \/ lon < -180 \/ lon > 180 THEN FALSE
    ELSE LET match == findNearestOffice(cfg, lat, lon)
         IN IF match.nil THEN FALSE ELSE match.IsValid

\* the replies the other specifications draw from: inside the office of the
\* default configuration, and outside it
InsideReply == <<1, 1>>
OutsideReply == <<2, 2>>
DefaultReplies == {InsideReply, OutsideReply}

----------------------------------------------------------------------------
(* Location confirmations (location.go)                                    *)

InitConfirmations ==
    /\ pendingConfirmations = [u \in Users |-> 0]
    /\ confs = <<>>
    /\ replies = [u \in Users |-> 0]
    /\ lastReply = [u \in Users |-> "none"]

InitConf == InitConfirmations /\ locationConfig = DefaultLocationConfig

\* &confirmationState{...} with its time.AfterFunc timer.  timer is
\* "armed", "stopped", or the position of the callback's goroutine: "fired"
\* (started, before the registry lock), "notify" (after its lock region),
\* "done".  The other fields are history: who deleted the state from the
\* registry, what this timer's callback deleted and sent, and what the reply
\* that consumed the state did, and the session that was registered for the
\* user when a failure DM was sent for this state (failSid).
NewConf(u) ==
    [user |-> u, timer |-> "armed", confirmed |-> FALSE, cancelOnce |-> FALSE,
     removedBy |-> "none", removerTimer |-> 0, removals |-> 0, replaced |-> FALSE,
     victim |-> 0, timeoutDMs |-> 0,
     replyPc |-> "none", isValidLocation |-> FALSE, status |-> "none",
     posts |-> 0, successDMs |-> 0, invalidDMs |-> 0, failSid |-> 0,
     latitude |-> 0, longitude |-> 0]

\* timer.Stop(): stops a timer that has not fired; a fired timer's function
\* has been started in its own goroutine and is not stopped
TimerStop(t) == IF t = "armed" THEN "stopped" ELSE t

\* state.cancelOnce.Do(func() { state.timer.Stop() })
CancelTimer(c) ==
    IF c.cancelOnce THEN c
    ELSE [c EXCEPT !.cancelOnce = TRUE, !.timer = TimerStop(c.timer)]

DeleteConfirmationKeep(pc, u) == pc

\* delete(w.pendingConfirmations, userID)
DeleteConfirmation(pc, u) == [pc EXCEPT ![u] = 0]

MarkRemoved(c, by, tid) ==
    [c EXCEPT !.removedBy = by, !.removerTimer = tid, !.removals = @ + 1]

\* the last confirmation made for user u (0 when none)
LastConf(u) ==
    LET ids == {i \in DOMAIN confs : confs[i].user = u}
    IN IF ids = {} THEN 0 ELSE CHOOSE i \in ids : \A j \in ids : j <= i

\* the timeout of u's last confirmation has been handled
TimedOut(u) ==
    /\ LastConf(u) # 0
    /\ confs[LastConf(u)].removedBy = "timer"

\* startConfirmationTimeout(userID, channelID), one lock region: cancel the
\* state registered for the user, arm a new timer, register the new state
ArmConfirmation(u) ==
    LET old == pendingConfirmations[u]
        cancelled == IF old = 0 THEN confs
                     ELSE [confs EXCEPT
                             ![old] = [CancelTimer(@) EXCEPT !.replaced = TRUE]]
    IN /\ confs' = Append(cancelled, NewConf(u))
       /\ pendingConfirmations' =
              [pendingConfirmations EXCEPT ![u] = Len(confs) + 1]

\* SendCheckinConfirmation after its DM was sent
startConfirmationTimeout(u) ==
    /\ Alive
    /\ Len(confs) < MaxConfs
    /\ ArmConfirmation(u)
    /\ UNCHANGED <<replies, lastReply, locationConfig>>
    /\ UNCHANGED <<transportVars, taskVars, cidVars, rcVars, sessVars, capVars>>

\* the 60 s of a timer elapse: the runtime starts the callback's goroutine
TimerFire(id) ==
    /\ Alive
    /\ confs[id].timer = "armed"
    /\ confs' = [confs EXCEPT ![id].timer = "fired"]
    /\ UNCHANGED <<pendingConfirmations, replies, lastReply, locationConfig>>
    /\ UNCHANGED <<transportVars, taskVars, cidVars, rcVars, sessVars, capVars>>

\* handleConfirmationTimeout(userID, channelID): the lock region.  The
\* lookup is by user id, whichever state is registered now.
handleConfirmationTimeout(id) ==
    /\ Alive
    /\ confs[id].timer = "fired"
    /\ LET u == confs[id].user
           cur == pendingConfirmations[u]
       IN IF cur = 0
            THEN /\ confs' = [confs EXCEPT ![id].timer = "done"]
                 /\ UNCHANGED pendingConfirmations
          ELSE IF confs[cur].confirmed
            THEN /\ confs' = [[confs EXCEPT ![cur] = MarkRemoved(@, "skip", id)]
                                 EXCEPT ![id].timer = "done"]
                 /\ pendingConfirmations' =
                        DeleteConfirmation(pendingConfirmations, u)
          ELSE /\ confs' = [[confs EXCEPT ![cur] = MarkRemoved(@, "timer", id)]
                               EXCEPT ![id].timer = "notify", ![id].victim = cur]
               /\ pendingConfirmations' =
                      DeleteConfirmation(pendingConfirmations, u)
    /\ UNCHANGED <<replies, lastReply, locationConfig>>
    /\ UNCHANGED <<transportVars, taskVars, cidVars, rcVars, sessVars, capVars>>

\* handleConfirmationTimeout after the lock region: the timeout DM, then
\* the fail audio and the delayed end of the call when a session exists
handleConfirmationTimeoutNotify(id) ==
    /\ Alive
    /\ confs[id].timer = "notify"
    /\ confs' = [confs EXCEPT ![id].timer = "done", ![id].timeoutDMs = @ + 1,
                              ![id].failSid = connections[confs[id].user]]
    /\ LET u == confs[id].user
       IN IF connections[u] # 0
            THEN \E r \in playCheckinFailAudio(u, sess, tasks) :
                     /\ sess' = r[1]
                     /\ tasks' = IF r[3] THEN Put(r[2], EndCallTask(u)) ELSE r[2]
            ELSE UNCHANGED <<sess, tasks>>
    /\ UNCHANGED <<pendingConfirmations, replies, lastReply, locationConfig>>
    /\ UNCHANGED <<connections, sigCount, preFlip, caPc>>
    /\ UNCHANGED <<transportVars, taskVars, cidVars, rcVars, capVars>>

RepliesSoFar == replies[1] + replies[2]

\* HandleLocationReply(userID, channelID, latitude, longitude): the lock
\* region, and the call of validateLocation that follows it
HandleLocationReply(u, latitude, longitude) ==
    /\ Alive
    /\ RepliesSoFar < MaxReplies
    /\ replies' = [replies EXCEPT ![u] = @ + 1]
    /\ LET cur == pendingConfirmations[u]
       IN IF cur = 0
            THEN /\ lastReply' = [lastReply EXCEPT
                        ![u] = IF TimedOut(u) THEN "afterTimeout" ELSE "noPending"]
                 /\ UNCHANGED <<pendingConfirmations, confs>>
            ELSE /\ lastReply' = [lastReply EXCEPT ![u] = "handled"]
                 /\ confs' = [confs EXCEPT ![cur] =
                        [MarkRemoved(CancelTimer([@ EXCEPT !.confirmed = TRUE]),
                                     "reply", 0)
                            EXCEPT !.replyPc = "validate",
                                   !.latitude = latitude,
                                   !.longitude = longitude,
                                   !.isValidLocation =
                                       validateLocation(locationConfig,
                                                        latitude, longitude)]]
                 /\ pendingConfirmations' =
                        DeleteConfirmation(pendingConfirmations, u)
    /\ UNCHANGED locationConfig
    /\ UNCHANGED <<transportVars, taskVars, cidVars, rcVars, sessVars, capVars>>

\* HandleLocationReply after the lock region, location rejected: the
\* failure DM, then the fail audio and the delayed end of the call
HandleLocationReplyInvalid(id) ==
    /\ Alive
    /\ confs[id].replyPc = "validate"
    /\ ~confs[id].isValidLocation
    /\ confs' = [confs EXCEPT ![id].replyPc = "done", ![id].invalidDMs = @ + 1,
                              ![id].failSid = connections[confs[id].user]]
    /\ LET u == confs[id].user
       IN IF connections[u] # 0
            THEN \E r \in playCheckinFailAudio(u, sess, tasks) :
                     /\ sess' = r[1]
                     /\ tasks' = IF r[3] THEN Put(r[2], EndCallTask(u)) ELSE r[2]
            ELSE UNCHANGED <<sess, tasks>>
    /\ UNCHANGED <<pendingConfirmations, replies, lastReply, locationConfig>>
    /\ UNCHANGED <<connections, sigCount, preFlip, caPc>>
    /\ UNCHANGED <<transportVars, taskVars, cidVars, rcVars, capVars>>

\* what SendRequest gives for the update-status POST: a transport error, or
\* a status code that is 2xx or not
StatusOutcomes == {"ok", "non2xx", "error"}

IsSuccessStatusCodeNever(outcome) == FALSE

\* apiClient.IsSuccessStatusCode(statusCode)
IsSuccessStatusCode(outcome) == outcome = "ok"

\* HandleLocationReply after the lock region, location accepted: the
\* update-status POST {userId, status: "APPROVED"}; a transport error
\* returns, a non-2xx status sends the failure DM, a 2xx the success DM
HandleLocationReplyPost(id, outcome) ==
    /\ Alive
    /\ confs[id].replyPc = "validate"
    /\ confs[id].isValidLocation
    /\ confs' = [confs EXCEPT
                   ![id].replyPc = "done",
                   ![id].status = outcome,
                   ![id].posts = @ + 1,
                   ![id].invalidDMs =
                       IF outcome # "error" /\ ~IsSuccessStatusCode(outcome)
                           THEN @ + 1 ELSE @,
                   ![id].successDMs =
                       IF outcome # "error" /\ IsSuccessStatusCode(outcome)
                           THEN @ + 1 ELSE @]
    /\ UNCHANGED <<pendingConfirmations, replies, lastReply, locationConfig>>
    /\ UNCHANGED <<transportVars, taskVars, cidVars, rcVars, sessVars, capVars>>

\* CloseAll step 1: cancel every pending confirmation, reset the registry
CloseAllConfirmations ==
    /\ Alive
    /\ caPc = "idle"
    /\ caPc' = "conns"
    /\ confs' = [i \in DOMAIN confs |->
                    IF pendingConfirmations[confs[i].user] = i
                        THEN MarkRemoved(CancelTimer(confs[i]), "shutdown", 0)
                        ELSE confs[i]]
    /\ pendingConfirmations' = [u \in Users |-> 0]
    /\ UNCHANGED <<replies, lastReply, locationConfig>>
    /\ UNCHANGED <<connections, sess, tasks, sigCount, preFlip>>
    /\ UNCHANGED <<transportVars, taskVars, cidVars, rcVars, capVars>>

\* the goroutines CloseAll starts, one per session it took
Closers(us) ==
    SetToBag({[NewTask("closeall", u, "ca_cancel") EXCEPT !.sid = connections[u]] :
                 u \in us})

\* CloseAll step 2: take every session out of the registry and start one
\* closing goroutine per session
CloseAllTakeConnections ==
    /\ Alive
    /\ caPc = "conns"
    /\ caPc' = "wait"
    /\ connections' = [u \in Users |-> 0]
    /\ tasks' = tasks (+) Closers({u \in Users : connections[u] # 0})
    /\ UNCHANGED <<sess, sigCount, preFlip>>
    /\ UNCHANGED <<transportVars, taskVars, cidVars, rcVars, confVars, capVars>>

\* CloseAll step 3 and 4: every closer finished or 5 s elapsed, then the
\* detector is closed
CloseAllFinish ==
    /\ Alive
    /\ caPc = "wait"
    /\ caPc' = "done"
    /\ UNCHANGED <<connections, sess, tasks, sigCount, preFlip>>
    /\ UNCHANGED <<transportVars, taskVars, cidVars, rcVars, confVars, capVars>>

----------------------------------------------------------------------------
(* Signalling handlers (HandleSignal), one goroutine per envelope          *)

SetTask(t, n) == tasks' = Put(Take(tasks, t), n)

SetPc(t, pc) == SetTask(t, [t EXCEPT !.pc = pc])

EndTask(t) == tasks' = Take(tasks, t)

\* SendWebRTCSignal can succeed: client not closed, connection present
CanSendSignal == ~IsClosed /\ conn # 0

\* iceReady of the session registered for u now
ReadyNow(u) == connections[u] # 0 /\ sess[connections[u]].iceReady

\* how many envelopes of a type the model receives: a caller hangs up at
\* most once per call
MaxOfType(type) ==
    CASE type = "offer" -> MaxSessions
      [] type = "ice" -> MaxICE
      [] type = "quit" -> sigCount["offer"]

\* envelopes are numbered in the order the reader receives them
SignalsSoFar == sigCount["offer"] + sigCount["ice"] + sigCount["quit"]

\* the reader hands a webrtc_signaling_fwd envelope to emit, which starts a
\* goroutine for the handler, which starts a goroutine for HandleSignal
Signal(u, type) ==
    /\ Alive
    /\ loginPc = "done"
    /\ sigCount' = [sigCount EXCEPT ![type] = @ + 1]
    /\ CASE type = "offer" ->
              /\ tasks' = Put(tasks, NewTask("offer", u, "o_register"))
              /\ UNCHANGED preFlip
         [] type = "ice" ->
              /\ tasks' = Put(tasks, [NewTask("ice", u, "i_lookup")
                                            EXCEPT !.cand = SignalsSoFar + 1])
              /\ preFlip' = IF ReadyNow(u) THEN preFlip
                            ELSE preFlip \cup {SignalsSoFar + 1}
         [] type = "quit" ->
              /\ tasks' = Put(tasks, NewTask("quit", u, "cl_lookup"))
              /\ UNCHANGED preFlip
    /\ UNCHANGED <<connections, sess, caPc>>
    /\ UNCHANGED <<transportVars, taskVars, cidVars, rcVars, confVars, capVars>>

\* an envelope of a type the model has not received its fill of
ReceiveSignal(u, type) ==
    /\ sigCount[type] < MaxOfType(type)
    /\ Signal(u, type)

\* the first offer of a user, every user calling at most once
FirstCall(u) ==
    /\ sigCount["offer"] < Cardinality(Users)
    /\ \A s \in DOMAIN sess : sess[s].user # u
    /\ \A t \in BagToSet(tasks) : t.user # u

\* handleOffer up to the registration: a bad offer or a failed
\* createPeerConnection returns; otherwise w.connections[userID] = state,
\* whatever was registered for the user before
O_Register(t, ok) ==
    /\ Alive
    /\ t.pc = "o_register"
    /\ IF ok
         THEN /\ sess' = Append(sess, NewSession(t.user))
              /\ connections' = [connections EXCEPT ![t.user] = Len(sess) + 1]
              /\ SetTask(t, [t EXCEPT !.pc = "o_remote", !.sid = Len(sess) + 1,
                                       !.from = Len(sess) + 1])
         ELSE /\ EndTask(t)
              /\ UNCHANGED <<sess, connections>>
    /\ UNCHANGED <<sigCount, preFlip, caPc>>
    /\ UNCHANGED <<transportVars, taskVars, cidVars, rcVars, confVars, capVars>>

\* pc.SetRemoteDescription; an error runs cleanupConnection(userID).  Then
\* setupAudioTrack: a new player, with its processQueue goroutine, goes to
\* the state registered for the user now
O_SetRemote(t, ok, audioOk) ==
    /\ Alive
    /\ t.pc = "o_remote"
    /\ SetPc(t, IF ok THEN "o_answer" ELSE "cl_lookup")
    /\ LET cur == connections[t.user]
       IN sess' = IF ok /\ AudioEnabled /\ audioOk /\ cur # 0
                    THEN [sess EXCEPT ![cur].player = TRUE, ![cur].queue = <<>>,
                                      ![cur].worker = "select",
                                      ![cur].item = "none", ![cur].apMu = FALSE]
                    ELSE IF ok THEN sess
                    ELSE [sess EXCEPT ![t.sid].offerFailed = TRUE]
    /\ UNCHANGED <<connections, sigCount, preFlip, caPc>>
    /\ UNCHANGED <<transportVars, taskVars, cidVars, rcVars, confVars, capVars>>

\* pc.CreateAnswer and pc.SetLocalDescription; an error runs cleanupConnection
O_Answer(t, ok) ==
    /\ Alive
    /\ t.pc = "o_answer"
    /\ SetPc(t, IF ok THEN "o_send" ELSE "cl_lookup")
    /\ sess' = IF ok THEN [sess EXCEPT ![t.sid].negotiated = TRUE]
                ELSE [sess EXCEPT ![t.sid].offerFailed = TRUE]
    /\ UNCHANGED <<connections, sigCount, preFlip, caPc>>
    /\ UNCHANGED <<transportVars, taskVars, cidVars, rcVars, confVars, capVars>>

\* 500 ms later SendWebRTCSignal(answer); an error runs cleanupConnection
O_SendAnswer(t, ok) ==
    /\ Alive
    /\ t.pc = "o_send"
    /\ ok => CanSendSignal
    /\ SetPc(t, IF ok THEN "o_flip" ELSE "cl_lookup")
    /\ sess' = IF ok THEN [sess EXCEPT ![t.sid].answered = TRUE]
                ELSE [sess EXCEPT ![t.sid].offerFailed = TRUE]
    /\ UNCHANGED <<connections, sigCount, preFlip, caPc>>
    /\ UNCHANGED <<transportVars, taskVars, cidVars, rcVars, confVars, capVars>>

\* state.mu region: iceReady = true, take pendingICE
O_Flip(t) ==
    /\ Alive
    /\ t.pc = "o_flip"
    /\ LET sid == t.sid
       IN /\ sess' = [sess EXCEPT ![sid].iceReady = TRUE, ![sid].pendingICE = <<>>]
          /\ SetTask(t, [t EXCEPT !.pc = "o_drain",
                                         !.pend = sess[sid].pendingICE])
    /\ UNCHANGED <<connections, sigCount, preFlip, caPc>>
    /\ UNCHANGED <<transportVars, taskVars, cidVars, rcVars, confVars, capVars>>

\* outside the lock: pc.AddICECandidate for the next pending candidate
O_Drain(t) ==
    /\ Alive
    /\ t.pc = "o_drain"
    /\ IF t.pend = <<>>
         THEN /\ EndTask(t)
              /\ UNCHANGED sess
         ELSE /\ sess' = [sess EXCEPT ![t.sid].added =
                              Append(@, Head(t.pend))]
              /\ SetTask(t, [t EXCEPT !.pend = Tail(@)])
    /\ UNCHANGED <<connections, sigCount, preFlip, caPc>>
    /\ UNCHANGED <<transportVars, taskVars, cidVars, rcVars, confVars, capVars>>

\* handleICECandidate: parse, then the registry lookup
I_Lookup(t, ok) ==
    /\ Alive
    /\ t.pc = "i_lookup"
    /\ LET cur == connections[t.user]
       IN IF ok /\ cur # 0
            THEN SetTask(t, [t EXCEPT !.pc = "i_apply", !.sid = cur])
            ELSE EndTask(t)
    /\ UNCHANGED <<connections, sess, sigCount, preFlip, caPc>>
    /\ UNCHANGED <<transportVars, taskVars, cidVars, rcVars, confVars, capVars>>

QueuesCandidateAlways(s) == TRUE

\* handleICECandidate: if !state.iceReady, the candidate is queued
QueuesCandidate(s) == ~s.iceReady

\* handleICECandidate, state.mu region: queue, or add to the peer connection
I_Apply(t) ==
    /\ Alive
    /\ t.pc = "i_apply"
    /\ LET sid == t.sid
       IN sess' = IF QueuesCandidate(sess[sid])
                    THEN [sess EXCEPT ![sid].pendingICE = Append(@, t.cand),
                                      ![sid].queued = Append(@, t.cand)]
                    ELSE [sess EXCEPT ![sid].added = Append(@, t.cand)]
    /\ EndTask(t)
    /\ UNCHANGED <<connections, sigCount, preFlip, caPc>>
    /\ UNCHANGED <<transportVars, taskVars, cidVars, rcVars, confVars, capVars>>

----------------------------------------------------------------------------
(* cleanupConnection, endCallAfterDelay, the connection-state callback and *)
(* the closing goroutines of CloseAll                                      *)

TakeConnectionKeep(c, u) == c

TakeConnectionAll(c, u) == [v \in DOMAIN c |-> 0]

\* delete(w.connections, userID)
TakeConnection(c, u) == [c EXCEPT ![u] = 0]

\* closeAudioStop: close(cs.audioStop) unless it is closed already
closeAudioStop(n) == IF n = 0 THEN 1 ELSE n

\* the first pc.Close() moves the connection to closed, which runs the
\* OnConnectionStateChange callback: cleanupConnection(userID)
PcCloseCallback(s, ts) ==
    IF s.pcClose = 0
        THEN Put(ts, StartedBy(NewTask("pcstate", s.user, "cl_lookup"), s.id))
        ELSE ts

\* cleanupConnection, w.mu region: look the user up, delete the entry
CL_Lookup(t) ==
    /\ Alive
    /\ t.pc = "cl_lookup"
    /\ LET u == t.user
           cur == connections[u]
       IN IF cur = 0
            THEN /\ EndTask(t)
                 /\ UNCHANGED <<connections, sess>>
            ELSE /\ connections' = TakeConnection(connections, u)
                 /\ sess' = [sess EXCEPT ![cur].taken = @ + 1,
                                          ![cur].takenFrom = @ \cup {t.from}]
                 /\ SetTask(t, [t EXCEPT !.pc = "cl_once", !.sid = cur])
    /\ UNCHANGED <<sigCount, preFlip, caPc>>
    /\ UNCHANGED <<transportVars, taskVars, cidVars, rcVars, confVars, capVars>>

\* state.cleanupOnce.Do: the first caller runs the body, which starts with
\* cancelFunc(); a later caller returns
CL_Once(t) ==
    /\ Alive
    /\ t.pc = "cl_once"
    /\ LET sid == t.sid
       IN IF sess[sid].cleanupOnce
            THEN /\ EndTask(t)
                 /\ UNCHANGED sess
            ELSE /\ sess' = [sess EXCEPT ![sid].cleanupOnce = TRUE,
                                         ![sid].body = @ + 1,
                                         ![sid].ctx = "cancelled"]
                 /\ SetPc(t, "cl_audio")
    /\ UNCHANGED <<connections, sigCount, preFlip, caPc>>
    /\ UNCHANGED <<transportVars, taskVars, cidVars, rcVars, confVars, capVars>>

\* a closing goroutine of CloseAll: s.cancelFunc()
CA_Cancel(t) ==
    /\ Alive
    /\ t.pc = "ca_cancel"
    /\ sess' = [sess EXCEPT ![t.sid].ctx = "cancelled"]
    /\ SetPc(t, "cl_audio")
    /\ UNCHANGED <<connections, sigCount, preFlip, caPc>>
    /\ UNCHANGED <<transportVars, taskVars, cidVars, rcVars, confVars, capVars>>

\* state.closeAudioStop(), 100 ms after the cancel in the cleanup body
CL_Audio(t) ==
    /\ Alive
    /\ t.pc = "cl_audio"
    /\ sess' = [sess EXCEPT ![t.sid].audioStop = closeAudioStop(@)]
    /\ SetPc(t, "cl_pc")
    /\ UNCHANGED <<connections, sigCount, preFlip, caPc>>
    /\ UNCHANGED <<transportVars, taskVars, cidVars, rcVars, confVars, capVars>>

\* state.pc.Close(); CloseAll's goroutine ends here
CL_PcClose(t) ==
    /\ Alive
    /\ t.pc = "cl_pc"
    /\ LET sid == t.sid
           rest == IF t.kind = "closeall" THEN Take(tasks, t)
                   ELSE Put(Take(tasks, t), [t EXCEPT !.pc = "cl_quit"])
       IN /\ sess' = [sess EXCEPT ![sid].pcClose = @ + 1]
          /\ tasks' = PcCloseCallback(sess[sid], rest)
    /\ UNCHANGED <<connections, sigCount, preFlip, caPc>>
    /\ UNCHANGED <<transportVars, taskVars, cidVars, rcVars, confVars, capVars>>

\* SendWebRTCSignal(QUIT), best effort: an error is logged
CL_Quit(t) ==
    /\ Alive
    /\ t.pc = "cl_quit"
    /\ sess' = [sess EXCEPT ![t.sid].quit = @ + 1]
    /\ EndTask(t)
    /\ UNCHANGED <<connections, sigCount, preFlip, caPc>>
    /\ UNCHANGED <<transportVars, taskVars, cidVars, rcVars, confVars, capVars>>

\* the peer connection fails: the OnConnectionStateChange callback runs
\* cleanupConnection(userID)
PcFailed(sid) ==
    /\ Alive
    /\ sess[sid].negotiated
    /\ ~sess[sid].pcFailed
    /\ sess[sid].pcClose = 0
    /\ sess' = [sess EXCEPT ![sid].pcFailed = TRUE]
    /\ tasks' = Put(tasks, StartedBy(NewTask("pcstate", sess[sid].user,
                                              "cl_lookup"), sid))
    /\ UNCHANGED <<connections, sigCount, preFlip, caPc>>
    /\ UNCHANGED <<transportVars, taskVars, cidVars, rcVars, confVars, capVars>>

\* endCallAfterDelay after its sleep: the registry lookup
E_Lookup(t) ==
    /\ Alive
    /\ t.pc = "e_lookup"
    /\ LET cur == connections[t.user]
       IN IF cur = 0
            THEN EndTask(t)
            ELSE SetTask(t, [t EXCEPT !.pc = "e_once", !.sid = cur])
    /\ UNCHANGED <<connections, sess, sigCount, preFlip, caPc>>
    /\ UNCHANGED <<transportVars, taskVars, cidVars, rcVars, confVars, capVars>>

\* state.endCallOnce.Do(cleanupConnection(userID))
E_Once(t) ==
    /\ Alive
    /\ t.pc = "e_once"
    /\ LET sid == t.sid
       IN IF sess[sid].endCallOnce
            THEN /\ EndTask(t)
                 /\ UNCHANGED sess
            ELSE /\ sess' = [sess EXCEPT ![sid].endCallOnce = TRUE]
                 /\ SetPc(t, "cl_lookup")
    /\ UNCHANGED <<connections, sigCount, preFlip, caPc>>
    /\ UNCHANGED <<transportVars, taskVars, cidVars, rcVars, confVars, capVars>>

----------------------------------------------------------------------------
(* The audio player of a session (internal/audio, internal/webrtc/audio.go) *)

\* main's audioConfig leaves BackgroundMusicEnabled unset
BackgroundMusicEnabled == FALSE

\* the connection reaches connected: startWelcomeAudio(userID) queues the
\* welcome item on the player of the state registered for the user now
PcConnected(sid) ==
    /\ Alive
    /\ sess[sid].answered
    /\ ~sess[sid].welcomed
    /\ ~sess[sid].pcFailed
    /\ sess[sid].pcClose = 0
    /\ LET cur == connections[sess[sid].user]
           ss == [sess EXCEPT ![sid].welcomed = TRUE]
       IN IF AudioEnabled /\ cur # 0 /\ "welcome" \in AudioLibrary
               /\ sess[IF cur = 0 THEN sid ELSE cur].player
            THEN \E q \in Play(sess[cur].queue, "welcome", sess[cur].audioStop > 0) :
                     sess' = [ss EXCEPT ![cur].queue = q]
            ELSE sess' = ss
    /\ UNCHANGED <<connections, tasks, sigCount, preFlip, caPc>>
    /\ UNCHANGED <<transportVars, taskVars, cidVars, rcVars, confVars, capVars>>

\* PlayNow ends: ap.mu released, Play(item); its caller goes on to
\* go endCallAfterDelay
PlayNowReturns(t) ==
    /\ \E q \in PlayNow(sess[t.sid].queue, "checkin_fail",
                        sess[t.sid].audioStop > 0) :
           sess' = [sess EXCEPT ![t.sid].queue = q, ![t.sid].apMu = FALSE]
    /\ tasks' = Put(Take(tasks, t), EndCallTask(t.user))

\* PlayNow: ap.mu.Lock(), then the loop test len(ap.queue) > 0
PN_Lock(t) ==
    /\ Alive
    /\ t.pc = "pn_lock"
    /\ ~sess[t.sid].apMu
    /\ IF sess[t.sid].queue = <<>>
         THEN PlayNowReturns(t)
         ELSE /\ sess' = [sess EXCEPT ![t.sid].apMu = TRUE]
              /\ SetPc(t, "pn_recv")
    /\ UNCHANGED <<connections, sigCount, preFlip, caPc>>
    /\ UNCHANGED <<transportVars, taskVars, cidVars, rcVars, confVars, capVars>>

\* PlayNow's drain loop: <-ap.queue, which waits while the queue is empty,
\* then the loop test again
PN_Recv(t) ==
    /\ Alive
    /\ t.pc = "pn_recv"
    /\ sess[t.sid].queue # <<>>
    /\ IF Tail(sess[t.sid].queue) = <<>>
         THEN PlayNowReturns(t)
         ELSE /\ sess' = [sess EXCEPT ![t.sid].queue = Tail(@)]
              /\ UNCHANGED tasks
    /\ UNCHANGED <<connections, sigCount, preFlip, caPc>>
    /\ UNCHANGED <<transportVars, taskVars, cidVars, rcVars, confVars, capVars>>

\* processQueue: case item := <-ap.queue
W_Recv(sid) ==
    /\ Alive
    /\ sess[sid].worker = "select"
    /\ sess[sid].queue # <<>>
    /\ sess' = [sess EXCEPT ![sid].worker = "lock",
                            ![sid].item = Head(sess[sid].queue),
                            ![sid].queue = Tail(@)]
    /\ UNCHANGED <<connections, tasks, sigCount, preFlip, caPc>>
    /\ UNCHANGED <<transportVars, taskVars, cidVars, rcVars, confVars, capVars>>

\* processQueue: case <-ap.stopChan: return
W_Stop(sid) ==
    /\ Alive
    /\ sess[sid].worker = "select"
    /\ sess[sid].audioStop > 0
    /\ sess' = [sess EXCEPT ![sid].worker = "done"]
    /\ UNCHANGED <<connections, tasks, sigCount, preFlip, caPc>>
    /\ UNCHANGED <<transportVars, taskVars, cidVars, rcVars, confVars, capVars>>

\* playAudio begins: ap.mu.Lock(), isPlaying = true, ap.mu.Unlock()
W_Begin(sid) ==
    /\ Alive
    /\ sess[sid].worker = "lock"
    /\ ~sess[sid].apMu
    /\ sess' = [sess EXCEPT ![sid].worker = "play",
                            ![sid].played = @ \cup {sess[sid].item},
                            ![sid].page = 0,
                            ![sid].late = 0]
    /\ UNCHANGED <<connections, tasks, sigCount, preFlip, caPc>>
    /\ UNCHANGED <<transportVars, taskVars, cidVars, rcVars, confVars, capVars>>

\* the items waiting in the queue
Waiting(q) == {q[n] : n \in DOMAIN q}

\* streamOGG, one round of its loop: the stop channel is not closed,
\* ParseNextPage gives a page, WriteSample, Sleep.  Nothing but the stop
\* channel is looked at between two pages.
W_Page(sid) ==
    /\ Alive
    /\ sess[sid].worker = "play"
    /\ sess[sid].audioStop = 0
    /\ sess[sid].page < MaxPages
    /\ sess' = [sess EXCEPT
                  ![sid].page = @ + 1,
                  ![sid].late = IF "checkin_fail" \in Waiting(sess[sid].queue)
                                  THEN @ + 1 ELSE @]
    /\ UNCHANGED <<connections, tasks, sigCount, preFlip, caPc>>
    /\ UNCHANGED <<transportVars, taskVars, cidVars, rcVars, confVars, capVars>>

\* playAudio ends: streamOGG has returned (end of file, an error, or the
\* stop channel closed; a looping item goes on until the stop), the deferred
\* function takes ap.mu again and runs the item's OnFinish
W_Finish(sid) ==
    /\ Alive
    /\ sess[sid].worker = "play"
    /\ sess[sid].item = "background_music" => sess[sid].audioStop > 0
    /\ ~sess[sid].apMu
    /\ LET s == sess[sid]
           ss == [sess EXCEPT ![sid].worker = "select", ![sid].item = "none"]
       IN CASE s.item = "checkin_fail" ->
                 /\ sess' = ss
                 /\ tasks' = Put(tasks, StartedBy(EndCallTask(s.user), sid))
            [] s.item = "welcome" /\ BackgroundMusicEnabled
                   /\ "background_music" \in AudioLibrary ->
                 /\ \E q \in Play(s.queue, "background_music", s.audioStop > 0) :
                        sess' = [ss EXCEPT ![sid].queue = q]
                 /\ UNCHANGED tasks
            [] OTHER ->
                 /\ sess' = ss
                 /\ UNCHANGED tasks
    /\ UNCHANGED <<connections, sigCount, preFlip, caPc>>
    /\ UNCHANGED <<transportVars, taskVars, cidVars, rcVars, confVars, capVars>>

----------------------------------------------------------------------------
(* The capture loop (realtimeFaceDetectionCapture), one per video track    *)

InitCap == caps = <<>> /\ capLog = <<>>

\* CaptureInterval: 1 * time.Second; the loop's time is counted in seconds
CaptureInterval == 1

\* a span of time, cut off at the capture interval
Later(span, dt) ==
    IF span + dt >= CaptureInterval THEN CaptureInterval ELSE span + dt

\* the time and the POSTs of one loop: sinceCapture is
\* time.Since(captureState.lastCaptureTime), posts counts the POSTs to the
\* recognition endpoint, sincePost is the time since the last of them (the
\* interval when there was none), closePosts says that two consecutive
\* POSTs were less than the interval apart, unposted counts the calls of
\* detectAndSendFullImage that made no POST
NewCaptureLog ==
    [sinceCapture |-> 0, posts |-> 0, sincePost |-> CaptureInterval,
     closePosts |-> FALSE, unposted |-> 0]

\* own is the session whose track and context the loop was started with,
\* sid the state it looked up in the registry by user id, conf the
\* confirmation its prompt registered (history); rtp is the position of the
\* loop's RTP reader goroutine, pli that of the startPLISender goroutine
\* OnTrack starts next to the loop, pliErrors its consecutiveErrors; failSid
\* is history: the session registered for the user when the failure DM was
\* sent
NewCapture(sid, u) ==
    [user |-> u, own |-> sid, sid |-> 0, pc |-> "lookup",
     samples |-> 0, totalAttempts |-> 0, successCount |-> 0,
     firstKeyframeReceived |-> FALSE, pliFired |-> FALSE,
     reason |-> "none", result |-> "none",
     identityVerified |-> FALSE, isWFH |-> FALSE, unverified |-> 0,
     confPc |-> "none", conf |-> 0, failDMs |-> 0, successDMs |-> 0,
     rtp |-> "select", pli |-> "run", pliErrors |-> 0, failSid |-> 0]

NilResponse == [nil |-> TRUE, identityVerified |-> FALSE, isWFH |-> FALSE]

\* what SubmitImage parses out of a 2xx reply
Responses ==
    {[nil |-> FALSE, identityVerified |-> v, isWFH |-> w] :
        v \in BOOLEAN, w \in BOOLEAN}

\* detectAndSendFullImage returns (hasFace, response): no face, a face with
\* no response (encode error, transport error, non-2xx, bad JSON), or a
\* face with the parsed response
Detections ==
    {[hasFace |-> FALSE, response |-> NilResponse],
     [hasFace |-> TRUE, response |-> NilResponse]}
        \cup {[hasFace |-> TRUE, response |-> r] : r \in Responses}

\* whether detectAndSendFullImage reached SubmitSingleImageToAPI: never
\* without a face; with a face and no response either the encoding failed
\* (no POST) or the POST was made and failed; always with a response
MayHavePosted(d) ==
    IF ~d.hasFace THEN {FALSE}
    ELSE IF d.response.nil THEN BOOLEAN
    ELSE {TRUE}

\* the log after a call of detectAndSendFullImage
Submitted(log, posted) ==
    IF posted
      THEN [log EXCEPT !.posts = @ + 1,
                       !.closePosts = @ \/ log.sincePost < CaptureInterval,
                       !.sincePost = 0]
      ELSE [log EXCEPT !.unposted = @ + 1]

\* the loop's success test: if hasFace && response != nil
CaptureSucceeds(d) == d.hasFace /\ ~d.response.nil

\* the detections of a call whose face is never recognised
FailedDetections == {d \in Detections : ~CaptureSucceeds(d)}

NeedsConfirmationAlways(r) == ~r.nil

\* handleCaptureSuccess: if response != nil && !response.IsWFH, the prompt
NeedsConfirmation(r) == ~r.nil /\ ~r.isWFH

PliExpiredAlways(c) == TRUE

\* case <-pliTimeout: if !captureState.firstKeyframeReceived
PliExpired(c) == ~c.firstKeyframeReceived

SetCap(i, c) == caps' = [caps EXCEPT ![i] = c]

\* pc.OnTrack for the video track: go realtimeFaceDetectionCapture
OnTrack(sid) ==
    /\ Alive
    /\ sess[sid].answered
    /\ ~sess[sid].track
    /\ sess[sid].pcClose = 0
    /\ sess' = [sess EXCEPT ![sid].track = TRUE]
    /\ caps' = Append(caps, NewCapture(sid, sess[sid].user))
    /\ capLog' = Append(capLog, NewCaptureLog)
    /\ UNCHANGED <<connections, tasks, sigCount, preFlip, caPc>>
    /\ UNCHANGED <<transportVars, taskVars, cidVars, rcVars, confVars>>

\* state, exists := w.connections[userID]; absent: return
Cap_Lookup(i) ==
    /\ Alive
    /\ caps[i].pc = "lookup"
    /\ LET cur == connections[caps[i].user]
       IN IF cur = 0
            THEN SetCap(i, [caps[i] EXCEPT !.pc = "done", !.result = "notfound"])
            ELSE SetCap(i, [caps[i] EXCEPT !.pc = "loop", !.sid = cur])
    /\ UNCHANGED <<transportVars, taskVars, cidVars, rcVars, sessVars, confVars>>
    /\ UNCHANGED capLog

\* case <-ctx.Done(): return
Cap_Cancelled(i) ==
    /\ Alive
    /\ caps[i].pc = "loop"
    /\ sess[caps[i].own].ctx = "cancelled"
    /\ SetCap(i, [caps[i] EXCEPT !.pc = "done", !.result = "cancelled"])
    /\ UNCHANGED <<transportVars, taskVars, cidVars, rcVars, sessVars, confVars>>
    /\ UNCHANGED capLog

\* sampleChan closed by the RTP reader: return
Cap_StreamEnded(i) ==
    /\ Alive
    /\ caps[i].pc = "loop"
    /\ sess[caps[i].own].ctx = "cancelled" \/ sess[caps[i].own].pcClose > 0
    /\ SetCap(i, [caps[i] EXCEPT !.pc = "done", !.result = "ended"])
    /\ UNCHANGED <<transportVars, taskVars, cidVars, rcVars, sessVars, confVars>>
    /\ UNCHANGED capLog

\* handleCaptureFailure begins: state.cancelFunc()
CaptureFails(i, reason) ==
    /\ SetCap(i, [caps[i] EXCEPT !.pc = "fail_dm", !.reason = reason])
    /\ sess' = [sess EXCEPT ![caps[i].sid].ctx = "cancelled"]

\* case <-captureTimeout
Cap_Timeout(i) ==
    /\ Alive
    /\ caps[i].pc = "loop"
    /\ CaptureFails(i, "timeout")
    /\ UNCHANGED <<connections, tasks, sigCount, preFlip, caPc>>
    /\ UNCHANGED <<transportVars, taskVars, cidVars, rcVars, confVars>>
    /\ UNCHANGED capLog

\* case <-pliTimeout: fails the capture when no keyframe was seen
Cap_PliTimeout(i) ==
    /\ Alive
    /\ caps[i].pc = "loop"
    /\ ~caps[i].pliFired
    /\ IF ~PliExpired(caps[i])
         THEN /\ SetCap(i, [caps[i] EXCEPT !.pliFired = TRUE])
              /\ UNCHANGED sess
         ELSE /\ SetCap(i, [caps[i] EXCEPT !.pliFired = TRUE, !.pc = "fail_dm",
                                           !.reason = "pli_timeout"])
              /\ sess' = [sess EXCEPT ![caps[i].sid].ctx = "cancelled"]
    /\ UNCHANGED <<connections, tasks, sigCount, preFlip, caPc>>
    /\ UNCHANGED <<transportVars, taskVars, cidVars, rcVars, confVars>>
    /\ UNCHANGED capLog

\* case sample := <-sampleChan.  keyframe, elapsed (CaptureInterval since
\* lastCaptureTime), decoded and d describe the sample and what detection
\* and the recognition API make of it.
AttemptsNeverExhausted(c) == FALSE

\* if captureState.totalAttempts >= w.captureConfig.MaxAttempts
AttemptsExhausted(c) == c.totalAttempts >= MaxAttempts

SampleStep(i, c, keyframe, elapsed, decoded, d) ==
    IF AttemptsExhausted(c)
      THEN /\ SetCap(i, [c EXCEPT !.pc = "fail_dm", !.reason = "max_attempts"])
           /\ sess' = [sess EXCEPT ![c.sid].ctx = "cancelled"]
    ELSE IF ~keyframe
      THEN /\ SetCap(i, c)
           /\ UNCHANGED sess
    ELSE IF ~elapsed \/ ~decoded
      THEN /\ SetCap(i, [c EXCEPT !.firstKeyframeReceived = TRUE])
           /\ UNCHANGED sess
    ELSE IF CaptureSucceeds(d)
      THEN /\ SetCap(i, [c EXCEPT
                  !.firstKeyframeReceived = TRUE,
                  !.totalAttempts = @ + 1,
                  !.successCount = @ + 1,
                  !.identityVerified = d.response.identityVerified,
                  !.isWFH = d.response.isWFH,
                  !.pc = IF d.response.isWFH THEN "succ_wfh" ELSE "succ_wait",
                  !.confPc = IF NeedsConfirmation(d.response)
                                 THEN "sending" ELSE "none"])
           /\ UNCHANGED sess
    ELSE /\ SetCap(i, [c EXCEPT !.firstKeyframeReceived = TRUE,
                                !.totalAttempts = @ + 1])
         /\ UNCHANGED sess

\* the sample case with the rate limit's outcome given by elapsed
Cap_Sample(i, keyframe, elapsed, decoded, d) ==
    /\ Alive
    /\ caps[i].pc = "loop"
    /\ caps[i].samples < MaxSamples
    /\ SampleStep(i, [caps[i] EXCEPT !.samples = @ + 1], keyframe, elapsed, decoded, d)
    /\ UNCHANGED capLog
    /\ UNCHANGED <<connections, tasks, sigCount, preFlip, caPc>>
    /\ UNCHANGED <<transportVars, taskVars, cidVars, rcVars, confVars>>

\* whether the sample gets as far as detectAndSendFullImage
Detects(c, keyframe, elapsed, decoded) ==
    ~AttemptsExhausted(c) /\ keyframe /\ elapsed /\ decoded

\* the same case with the loop's clock: the sample arrives dt after the
\* previous one, the rate limit compares time.Since(lastCaptureTime) with
\* CaptureInterval, and posted says whether the detection made its POST;
\* lastCaptureTime = time.Now() on success
Cap_TimedSample(i, keyframe, dt, decoded, d, posted) ==
    /\ Alive
    /\ caps[i].pc = "loop"
    /\ caps[i].samples < MaxSamples
    /\ posted \in MayHavePosted(d)
    /\ LET log == [capLog[i] EXCEPT !.sinceCapture = Later(@, dt),
                                    !.sincePost = Later(@, dt)]
           elapsed == log.sinceCapture >= CaptureInterval
           c == [caps[i] EXCEPT !.samples = @ + 1]
       IN /\ SampleStep(i, c, keyframe, elapsed, decoded, d)
          /\ capLog' = [capLog EXCEPT ![i] =
                IF ~Detects(c, keyframe, elapsed, decoded) THEN log
                ELSE IF CaptureSucceeds(d)
                  THEN [Submitted(log, posted) EXCEPT !.sinceCapture = 0]
                ELSE Submitted(log, posted)]
    /\ UNCHANGED <<connections, tasks, sigCount, preFlip, caPc>>
    /\ UNCHANGED <<transportVars, taskVars, cidVars, rcVars, confVars>>

\* handleCaptureFailure: the failure DM, then go endCallAfterDelay
Cap_FailDM(i) ==
    /\ Alive
    /\ caps[i].pc = "fail_dm"
    /\ SetCap(i, [caps[i] EXCEPT !.pc = "done", !.result = caps[i].reason,
                                 !.failDMs = @ + 1,
                                 !.failSid = connections[caps[i].user]])
    /\ tasks' = Put(tasks, StartedBy(EndCallTask(caps[i].user), caps[i].own))
    /\ UNCHANGED <<connections, sess, sigCount, preFlip, caPc>>
    /\ UNCHANGED <<transportVars, taskVars, cidVars, rcVars, confVars>>
    /\ UNCHANGED capLog

\* the goroutine of handleCaptureSuccess that runs SendCheckinConfirmation:
\* the DM, and when it was sent startConfirmationTimeout
Cap_SendConfirmation(i, ok) ==
    /\ Alive
    /\ caps[i].confPc = "sending"
    /\ SetCap(i, [caps[i] EXCEPT !.confPc = "done",
                                 !.conf = IF ok THEN Len(confs) + 1 ELSE 0])
    /\ IF ok
         THEN /\ Len(confs) < MaxConfs
              /\ ArmConfirmation(caps[i].user)
         ELSE UNCHANGED <<confs, pendingConfirmations>>
    /\ UNCHANGED <<replies, lastReply, locationConfig>>
    /\ UNCHANGED <<transportVars, taskVars, cidVars, rcVars, sessVars>>
    /\ UNCHANGED capLog

\* handleCaptureSuccess: the confirmation was sent or 5 s elapsed; then
\* go endCallAfterDelay
Cap_SuccessWait(i) ==
    /\ Alive
    /\ caps[i].pc = "succ_wait"
    /\ SetCap(i, [caps[i] EXCEPT !.pc = "succ_sleep"])
    /\ tasks' = Put(tasks, StartedBy(EndCallTask(caps[i].user), caps[i].own))
    /\ UNCHANGED <<connections, sess, sigCount, preFlip, caPc>>
    /\ UNCHANGED <<transportVars, taskVars, cidVars, rcVars, confVars>>
    /\ UNCHANGED capLog

\* handleCaptureSuccess for a work-from-home response: the success DM, then
\* go endCallAfterDelay
Cap_SuccessWFH(i) ==
    /\ Alive
    /\ caps[i].pc = "succ_wfh"
    /\ SetCap(i, [caps[i] EXCEPT !.pc = "succ_sleep", !.successDMs = @ + 1])
    /\ tasks' = Put(tasks, StartedBy(EndCallTask(caps[i].user), caps[i].own))
    /\ UNCHANGED <<connections, sess, sigCount, preFlip, caPc>>
    /\ UNCHANGED <<transportVars, taskVars, cidVars, rcVars, confVars>>
    /\ UNCHANGED capLog

\* handleCaptureSuccess ends: 500 ms later state.cancelFunc()
Cap_SuccessCancel(i) ==
    /\ Alive
    /\ caps[i].pc = "succ_sleep"
    /\ SetCap(i, [caps[i] EXCEPT !.pc = "done", !.result = "success"])
    /\ sess' = [sess EXCEPT ![caps[i].sid].ctx = "cancelled"]
    /\ UNCHANGED <<connections, tasks, sigCount, preFlip, caPc>>
    /\ UNCHANGED <<transportVars, taskVars, cidVars, rcVars, confVars>>
    /\ UNCHANGED capLog

\* rtpCtx is done: the session's context is cancelled, or the capture loop
\* has returned and its deferred rtpCancel has run
RtpCtxDone(i) == sess[caps[i].own].ctx = "cancelled" \/ caps[i].pc = "done"

\* the RTP reader's select: case <-rtpCtx.Done() returns, default reads
Rtp_Select(i) ==
    /\ Alive
    /\ caps[i].rtp = "select"
    /\ SetCap(i, [caps[i] EXCEPT !.rtp = IF RtpCtxDone(i) THEN "done" ELSE "read"])
    /\ UNCHANGED <<transportVars, taskVars, cidVars, rcVars, sessVars, confVars>>
    /\ UNCHANGED capLog

\* track.ReadRTP() returns a packet; sample: the sample builder pops one
Rtp_Packet(i, sample) ==
    /\ Alive
    /\ caps[i].rtp = "read"
    /\ sess[caps[i].own].pcClose = 0
    /\ SetCap(i, [caps[i] EXCEPT !.rtp = IF sample THEN "send" ELSE "select"])
    /\ UNCHANGED <<transportVars, taskVars, cidVars, rcVars, sessVars, confVars>>
    /\ UNCHANGED capLog

\* track.ReadRTP() returns an error once the peer connection is closed
Rtp_ReadError(i) ==
    /\ Alive
    /\ caps[i].rtp = "read"
    /\ sess[caps[i].own].pcClose > 0
    /\ SetCap(i, [caps[i] EXCEPT !.rtp = "done"])
    /\ UNCHANGED <<transportVars, taskVars, cidVars, rcVars, sessVars, confVars>>
    /\ UNCHANGED capLog

\* select: sampleChan <- sample while the loop receives, or rtpCtx.Done()
Rtp_Send(i, sent) ==
    /\ Alive
    /\ caps[i].rtp = "send"
    /\ IF sent THEN caps[i].pc # "done" ELSE RtpCtxDone(i)
    /\ SetCap(i, [caps[i] EXCEPT !.rtp = IF sent THEN "select" ELSE "done"])
    /\ UNCHANGED <<transportVars, taskVars, cidVars, rcVars, sessVars, confVars>>
    /\ UNCHANGED capLog

\* startPLISender: case <-ctx.Done(): return
Pli_Stop(i) ==
    /\ Alive
    /\ caps[i].pli = "run"
    /\ sess[caps[i].own].ctx = "cancelled"
    /\ SetCap(i, [caps[i] EXCEPT !.pli = "done"])
    /\ UNCHANGED <<transportVars, taskVars, cidVars, rcVars, sessVars, confVars>>
    /\ UNCHANGED capLog

\* startPLISender: case <-ticker.C: return when the connection is closed or
\* failed, else pc.WriteRTCP; maxErrors consecutive errors end the sender
Pli_Tick(i, ok) ==
    /\ Alive
    /\ caps[i].pli = "run"
    /\ LET s == sess[caps[i].own]
       IN IF s.pcClose > 0 \/ s.pcFailed
            THEN SetCap(i, [caps[i] EXCEPT !.pli = "done"])
          ELSE IF ok
            THEN SetCap(i, [caps[i] EXCEPT !.pliErrors = 0])
          ELSE SetCap(i, [caps[i] EXCEPT
                   !.pliErrors = @ + 1,
                   !.pli = IF caps[i].pliErrors + 1 >= 3 THEN "done" ELSE "run"])
    /\ UNCHANGED <<transportVars, taskVars, cidVars, rcVars, sessVars, confVars>>
    /\ UNCHANGED capLog

----------------------------------------------------------------------------
(* Specifications                                                          *)

Init == InitTransport /\ InitTasks /\ InitCid /\ InitRc /\ InitDm /\ InitSess /\ InitConf /\ InitCap

\* the cid registry: callers of sendWithResponse against the reader
NextCid ==
    \/ LoginOk
    \/ LoginFail
    \/ CloseMark
    \/ CloseCancel
    \/ CloseConn
    \/ \E p \in Callers : S_Begin(p)
    \/ \E p \in Callers : S_Gen(p)
    \/ \E p \in Callers : S_Register(p)
    \/ \E p \in Callers : S_Send(p)
    \/ \E p \in Callers : S_RecvResponse(p)
    \/ \E p \in Callers : S_Timeout(p)
    \/ \E p \in Callers : S_Cancelled(p)
    \/ \E p \in Callers : S_Unregister(p)
    \/ \E p \in Callers : S_CloseChan(p)
    \/ \E p \in Callers : S_Return(p)
    \/ \E k \in DOMAIN readers : R_Top(k)
    \/ \E k \in DOMAIN readers : ReadFrame(k)
    \/ \E k \in DOMAIN readers : ResolveLookup(k)
    \/ \E k \in DOMAIN readers : ResolveDeliver(k)
    \/ \E k \in DOMAIN readers : ResolveDrop(k)

SpecCid == Init /\ [][NextCid]_vars

\* the reconnect controller against connection failures and Close()
NextReconnect ==
    \/ LoginOk
    \/ LoginFail
    \/ CloseMark
    \/ CloseCancel
    \/ CloseConn
    \/ \E k \in DOMAIN readers : R_Top(k)
    \/ \E k \in DOMAIN readers : ReadError(k)
    \/ \E k \in DOMAIN pingers : P_Stop(k)
    \/ \E k \in DOMAIN pingers : P_Fail(k)
    \/ HD_Enter
    \/ RC_LoopHead
    \/ RC_WaitElapsed
    \/ RC_WaitCancelled
    \/ RC_AttemptClose
    \/ RC_LoginOk
    \/ RC_LoginFail
    \/ RC_Emit
    \/ HD_Exit

SpecReconnect == Init /\ [][NextReconnect]_vars

\* the DM manager beside one disconnect and reconnect of the transport
NextDm ==
    \/ LoginOk
    \/ NewDMManager
    \/ \E t \in DmSenders : SendDMWithContext(t)
    \/ \E t \in DmHandlers : ReconnectedHandler(t)
    \/ \E t \in DmTasks : ensureDMReadyFast(t)
    \/ \E t \in DmTasks : ensureDMReadyLock(t)
    \/ \E t \in DmTasks : joinClanInternal(t)
    \/ \E t \in DmTasks, ok \in BOOLEAN : joinClanResponse(t, ok)
    \/ \E t \in DmSenders : SendDMCheck(t)
    \/ \E t \in DmSenders : SendDMPoll(t)
    \/ \E t \in DmSenders : SendDMRecheck(t)
    \/ \E t \in DmSenders : sendDMMessage(t)
    \/ \E k \in DOMAIN readers : R_Top(k)
    \/ \E k \in DOMAIN readers : ReadError(k)
    \/ HD_Enter
    \/ RC_LoopHead
    \/ RC_WaitElapsed
    \/ RC_AttemptClose
    \/ RC_LoginOk
    \/ RC_Emit
    \/ HD_Exit

SpecDm == Init /\ [][NextDm]_vars

\* sendDm calls side by side on one connection that stays up
NextDmInit ==
    \/ LoginOk
    \/ NewDMManager
    \/ \E t \in DmSenders : SendDMWithContext(t)
    \/ \E t \in DmTasks : ensureDMReadyFast(t)
    \/ \E t \in DmTasks : ensureDMReadyLock(t)
    \/ \E t \in DmTasks : joinClanInternal(t)
    \/ \E t \in DmTasks, ok \in BOOLEAN : joinClanResponse(t, ok)
    \/ \E t \in DmSenders : SendDMCheck(t)
    \/ \E t \in DmSenders : sendDMMessage(t)

SpecDmInit == Init /\ [][NextDmInit]_vars

\* the confirmation registry: prompts, timers, replies and shutdown
NextConfirm ==
    \/ \E u \in Users : startConfirmationTimeout(u)
    \/ \E id \in DOMAIN confs : TimerFire(id)
    \/ \E id \in DOMAIN confs : handleConfirmationTimeout(id)
    \/ \E id \in DOMAIN confs : handleConfirmationTimeoutNotify(id)
    \/ \E u \in Users, p \in DefaultReplies : HandleLocationReply(u, p[1], p[2])
    \/ \E id \in DOMAIN confs : HandleLocationReplyInvalid(id)
    \/ \E id \in DOMAIN confs, outcome \in StatusOutcomes :
           HandleLocationReplyPost(id, outcome)
    \/ CloseAllConfirmations

SpecConfirm == Init /\ [][NextConfirm]_vars

\* the coordinates a reply can carry: around the offices, and out of range
ReplyLatitudes == {-1, 0, 1, 2, 3, 91}
ReplyLongitudes == {-1, 0, 1, 2, 3, 181}

\* the location validator: one prompt and one reply, under every
\* configuration NewWebRTCManager accepts
InitLocation ==
    /\ InitTransport /\ InitTasks /\ InitCid /\ InitRc /\ InitDm /\ InitSess /\ InitCap
    /\ InitConfirmations
    /\ locationConfig \in LocationConfigs

NextLocation ==
    \/ \E u \in Caller : confs = <<>> /\ startConfirmationTimeout(u)
    \/ \E u \in Caller, lat \in ReplyLatitudes, lon \in ReplyLongitudes :
           replies[u] = 0 /\ HandleLocationReply(u, lat, lon)
    \/ \E id \in DOMAIN confs : HandleLocationReplyInvalid(id)
    \/ \E id \in DOMAIN confs, outcome \in StatusOutcomes :
           HandleLocationReplyPost(id, outcome)

SpecLocation == InitLocation /\ [][NextLocation]_vars

\* the pending-ICE queue: offers and candidates of one caller
NextIce ==
    \/ LoginOk
    \/ \E u \in Caller, type \in {"offer", "ice"} : ReceiveSignal(u, type)
    \/ \E t \in BagToSet(tasks), ok \in BOOLEAN : O_Register(t, ok)
    \/ \E t \in BagToSet(tasks), ok \in BOOLEAN, audioOk \in BOOLEAN :
           O_SetRemote(t, ok, audioOk)
    \/ \E t \in BagToSet(tasks), ok \in BOOLEAN : O_Answer(t, ok)
    \/ \E t \in BagToSet(tasks), ok \in BOOLEAN : O_SendAnswer(t, ok)
    \/ \E t \in BagToSet(tasks) : O_Flip(t)
    \/ \E t \in BagToSet(tasks) : O_Drain(t)
    \/ \E t \in BagToSet(tasks), ok \in BOOLEAN : I_Lookup(t, ok)
    \/ \E t \in BagToSet(tasks) : I_Apply(t)
    \/ \E t \in BagToSet(tasks) : CL_Lookup(t)
    \/ \E t \in BagToSet(tasks) : CL_Once(t)
    \/ \E t \in BagToSet(tasks) : CL_Audio(t)
    \/ \E t \in BagToSet(tasks) : CL_PcClose(t)
    \/ \E t \in BagToSet(tasks) : CL_Quit(t)

SpecIce == Init /\ [][NextIce]_vars

\* the session registry: every trigger of cleanupConnection, and shutdown
NextCleanup ==
    \/ LoginOk
    \/ \E u \in Caller, type \in {"offer", "quit"} : ReceiveSignal(u, type)
    \/ \E t \in BagToSet(tasks), ok \in BOOLEAN : O_Register(t, ok)
    \/ \E t \in BagToSet(tasks), ok \in BOOLEAN, audioOk \in BOOLEAN :
           O_SetRemote(t, ok, audioOk)
    \/ \E t \in BagToSet(tasks), ok \in BOOLEAN : O_Answer(t, ok)
    \/ \E t \in BagToSet(tasks), ok \in BOOLEAN : O_SendAnswer(t, ok)
    \/ \E t \in BagToSet(tasks) : O_Flip(t)
    \/ \E t \in BagToSet(tasks) : O_Drain(t)
    \/ \E t \in BagToSet(tasks) : CL_Lookup(t)
    \/ \E t \in BagToSet(tasks) : CL_Once(t)
    \/ \E t \in BagToSet(tasks) : CL_Audio(t)
    \/ \E t \in BagToSet(tasks) : CL_PcClose(t)
    \/ \E t \in BagToSet(tasks) : CL_Quit(t)
    \/ \E t \in BagToSet(tasks) : CA_Cancel(t)
    \/ \E sid \in DOMAIN sess : PcFailed(sid)
    \/ \E t \in BagToSet(tasks) : E_Lookup(t)
    \/ \E t \in BagToSet(tasks) : E_Once(t)
    \/ \E sid \in DOMAIN sess : OnTrack(sid)
    \/ \E i \in DOMAIN caps : Cap_Lookup(i)
    \/ \E i \in DOMAIN caps : Cap_Cancelled(i)
    \/ \E i \in DOMAIN caps : Cap_Timeout(i)
    \/ \E i \in DOMAIN caps : Cap_FailDM(i)
    \/ CloseAllConfirmations
    \/ CloseAllTakeConnections
    \/ CloseAllFinish

SpecCleanup == Init /\ [][NextCleanup]_vars

\* the capture loop of a call, from the offer to the loop's exit
NextCapture ==
    \/ LoginOk
    \/ \E u \in Caller, type \in {"offer", "quit"} : ReceiveSignal(u, type)
    \/ \E t \in BagToSet(tasks), ok \in BOOLEAN : O_Register(t, ok)
    \/ \E t \in BagToSet(tasks), ok \in BOOLEAN, audioOk \in BOOLEAN :
           O_SetRemote(t, ok, audioOk)
    \/ \E t \in BagToSet(tasks), ok \in BOOLEAN : O_Answer(t, ok)
    \/ \E t \in BagToSet(tasks), ok \in BOOLEAN : O_SendAnswer(t, ok)
    \/ \E t \in BagToSet(tasks) : O_Flip(t)
    \/ \E t \in BagToSet(tasks) : O_Drain(t)
    \/ \E t \in BagToSet(tasks) : CL_Lookup(t)
    \/ \E t \in BagToSet(tasks) : CL_Once(t)
    \/ \E t \in BagToSet(tasks) : CL_Audio(t)
    \/ \E t \in BagToSet(tasks) : CL_PcClose(t)
    \/ \E t \in BagToSet(tasks) : CL_Quit(t)
    \/ \E sid \in DOMAIN sess : OnTrack(sid)
    \/ \E i \in DOMAIN caps : Cap_Lookup(i)
    \/ \E i \in DOMAIN caps : Cap_Cancelled(i)
    \/ \E i \in DOMAIN caps : Cap_StreamEnded(i)
    \/ \E i \in DOMAIN caps : Cap_Timeout(i)
    \/ \E i \in DOMAIN caps : Cap_PliTimeout(i)
    \/ \E i \in DOMAIN caps, keyframe \in BOOLEAN, elapsed \in BOOLEAN,
             decoded \in BOOLEAN, d \in Detections :
           Cap_Sample(i, keyframe, elapsed, decoded, d)
    \/ \E i \in DOMAIN caps : Cap_FailDM(i)
    \/ \E i \in DOMAIN caps, ok \in BOOLEAN : Cap_SendConfirmation(i, ok)
    \/ \E i \in DOMAIN caps : Cap_SuccessWait(i)
    \/ \E i \in DOMAIN caps : Cap_SuccessWFH(i)
    \/ \E i \in DOMAIN caps : Cap_SuccessCancel(i)

SpecCapture == Init /\ [][NextCapture]_vars

\* the capture loop with its clock and its recognition POSTs
NextAttempts ==
    \/ LoginOk
    \/ \E u \in Caller, type \in {"offer", "quit"} : ReceiveSignal(u, type)
    \/ \E t \in BagToSet(tasks), ok \in BOOLEAN : O_Register(t, ok)
    \/ \E t \in BagToSet(tasks), ok \in BOOLEAN, audioOk \in BOOLEAN :
           O_SetRemote(t, ok, audioOk)
    \/ \E t \in BagToSet(tasks), ok \in BOOLEAN : O_Answer(t, ok)
    \/ \E t \in BagToSet(tasks), ok \in BOOLEAN : O_SendAnswer(t, ok)
    \/ \E t \in BagToSet(tasks) : O_Flip(t)
    \/ \E t \in BagToSet(tasks) : O_Drain(t)
    \/ \E t \in BagToSet(tasks) : CL_Lookup(t)
    \/ \E t \in BagToSet(tasks) : CL_Once(t)
    \/ \E t \in BagToSet(tasks) : CL_Audio(t)
    \/ \E t \in BagToSet(tasks) : CL_PcClose(t)
    \/ \E t \in BagToSet(tasks) : CL_Quit(t)
    \/ \E sid \in DOMAIN sess : OnTrack(sid)
    \/ \E i \in DOMAIN caps : Cap_Lookup(i)
    \/ \E i \in DOMAIN caps : Cap_Cancelled(i)
    \/ \E i \in DOMAIN caps : Cap_StreamEnded(i)
    \/ \E i \in DOMAIN caps : Cap_Timeout(i)
    \/ \E i \in DOMAIN caps : Cap_PliTimeout(i)
    \/ \E i \in DOMAIN caps, keyframe \in BOOLEAN, dt \in 0..CaptureInterval,
             decoded \in BOOLEAN, d \in Detections, posted \in BOOLEAN :
           Cap_TimedSample(i, keyframe, dt, decoded, d, posted)
    \/ \E i \in DOMAIN caps : Cap_FailDM(i)
    \/ \E i \in DOMAIN caps, ok \in BOOLEAN : Cap_SendConfirmation(i, ok)
    \/ \E i \in DOMAIN caps : Cap_SuccessWait(i)
    \/ \E i \in DOMAIN caps : Cap_SuccessWFH(i)
    \/ \E i \in DOMAIN caps : Cap_SuccessCancel(i)

SpecAttempts == Init /\ [][NextAttempts]_vars

\* a whole check-in of one caller: the offer, the capture loop fed with
\* decodable keyframes, the prompt, the location reply or the 60 s timer,
\* the delayed end of the call
NextCheckin ==
    \/ LoginOk
    \/ \E u \in Caller : ReceiveSignal(u, "offer")
    \/ \E t \in BagToSet(tasks), ok \in BOOLEAN : O_Register(t, ok)
    \/ \E t \in BagToSet(tasks), ok \in BOOLEAN, audioOk \in BOOLEAN :
           O_SetRemote(t, ok, audioOk)
    \/ \E t \in BagToSet(tasks), ok \in BOOLEAN : O_Answer(t, ok)
    \/ \E t \in BagToSet(tasks), ok \in BOOLEAN : O_SendAnswer(t, ok)
    \/ \E t \in BagToSet(tasks) : O_Flip(t)
    \/ \E t \in BagToSet(tasks) : O_Drain(t)
    \/ \E sid \in DOMAIN sess : OnTrack(sid)
    \/ \E i \in DOMAIN caps : Cap_Lookup(i)
    \/ \E i \in DOMAIN caps : Cap_Timeout(i)
    \/ \E i \in DOMAIN caps, d \in Detections :
           Cap_Sample(i, TRUE, TRUE, TRUE, d)
    \/ \E i \in DOMAIN caps : Cap_FailDM(i)
    \/ \E i \in DOMAIN caps, ok \in BOOLEAN : Cap_SendConfirmation(i, ok)
    \/ \E i \in DOMAIN caps : Cap_SuccessWait(i)
    \/ \E i \in DOMAIN caps : Cap_SuccessWFH(i)
    \/ \E i \in DOMAIN caps : Cap_SuccessCancel(i)
    \/ \E id \in DOMAIN confs : TimerFire(id)
    \/ \E id \in DOMAIN confs : handleConfirmationTimeout(id)
    \/ \E id \in DOMAIN confs : handleConfirmationTimeoutNotify(id)
    \/ \E u \in Caller, p \in DefaultReplies : HandleLocationReply(u, p[1], p[2])
    \/ \E id \in DOMAIN confs : HandleLocationReplyInvalid(id)
    \/ \E id \in DOMAIN confs, outcome \in StatusOutcomes :
           HandleLocationReplyPost(id, outcome)
    \/ \E t \in BagToSet(tasks) : E_Lookup(t)
    \/ \E t \in BagToSet(tasks) : E_Once(t)
    \/ \E t \in BagToSet(tasks) : CL_Lookup(t)
    \/ \E t \in BagToSet(tasks) : CL_Once(t)
    \/ \E t \in BagToSet(tasks) : CL_Audio(t)
    \/ \E t \in BagToSet(tasks) : CL_PcClose(t)
    \/ \E t \in BagToSet(tasks) : CL_Quit(t)

\* the Go scheduler runs every runnable goroutine, a sleep ends and a timer
\* that is armed elapses: the steps of the program are weakly fair.  What
\* the peer and the services send (offers, samples, replies) is not.
FairCheckin ==
    /\ WF_vars(\E i \in DOMAIN caps : Cap_Lookup(i))
    /\ WF_vars(\E i \in DOMAIN caps : Cap_FailDM(i))
    /\ WF_vars(\E i \in DOMAIN caps : Cap_SuccessWait(i))
    /\ WF_vars(\E i \in DOMAIN caps : Cap_SuccessWFH(i))
    /\ WF_vars(\E i \in DOMAIN caps : Cap_SuccessCancel(i))
    /\ WF_vars(\E id \in DOMAIN confs : TimerFire(id))
    /\ WF_vars(\E id \in DOMAIN confs : handleConfirmationTimeout(id))
    /\ WF_vars(\E id \in DOMAIN confs : handleConfirmationTimeoutNotify(id))
    /\ WF_vars(\E id \in DOMAIN confs : HandleLocationReplyInvalid(id))
    /\ WF_vars(\E id \in DOMAIN confs, outcome \in StatusOutcomes :
                   HandleLocationReplyPost(id, outcome))
    /\ WF_vars(\E t \in BagToSet(tasks) : E_Lookup(t))
    /\ WF_vars(\E t \in BagToSet(tasks) : E_Once(t))
    /\ WF_vars(\E t \in BagToSet(tasks) : CL_Lookup(t))
    /\ WF_vars(\E t \in BagToSet(tasks) : CL_Once(t))
    /\ WF_vars(\E t \in BagToSet(tasks) : CL_Audio(t))
    /\ WF_vars(\E t \in BagToSet(tasks) : CL_PcClose(t))
    /\ WF_vars(\E t \in BagToSet(tasks) : CL_Quit(t))

SpecCheckin == Init /\ [][NextCheckin]_vars /\ FairCheckin

\* a call whose recognition never succeeds: the capture loop against its two
\* deadlines, the attempt limit, a hang-up and the delayed end of the call
NextNoFace ==
    \/ LoginOk
    \/ \E u \in Caller, type \in {"offer", "quit"} : ReceiveSignal(u, type)
    \/ \E t \in BagToSet(tasks), ok \in BOOLEAN : O_Register(t, ok)
    \/ \E t \in BagToSet(tasks), ok \in BOOLEAN, audioOk \in BOOLEAN :
           O_SetRemote(t, ok, audioOk)
    \/ \E t \in BagToSet(tasks), ok \in BOOLEAN : O_Answer(t, ok)
    \/ \E t \in BagToSet(tasks), ok \in BOOLEAN : O_SendAnswer(t, ok)
    \/ \E t \in BagToSet(tasks) : O_Flip(t)
    \/ \E t \in BagToSet(tasks) : O_Drain(t)
    \/ \E sid \in DOMAIN sess : OnTrack(sid)
    \/ \E i \in DOMAIN caps : Cap_Lookup(i)
    \/ \E i \in DOMAIN caps : Cap_Cancelled(i)
    \/ \E i \in DOMAIN caps : Cap_StreamEnded(i)
    \/ \E i \in DOMAIN caps : Cap_Timeout(i)
    \/ \E i \in DOMAIN caps : Cap_PliTimeout(i)
    \/ \E i \in DOMAIN caps, keyframe \in BOOLEAN, elapsed \in BOOLEAN,
             decoded \in BOOLEAN, d \in FailedDetections :
           Cap_Sample(i, keyframe, elapsed, decoded, d)
    \/ \E i \in DOMAIN caps : Cap_FailDM(i)
    \/ \E t \in BagToSet(tasks) : E_Lookup(t)
    \/ \E t \in BagToSet(tasks) : E_Once(t)
    \/ \E t \in BagToSet(tasks) : CL_Lookup(t)
    \/ \E t \in BagToSet(tasks) : CL_Once(t)
    \/ \E t \in BagToSet(tasks) : CL_Audio(t)
    \/ \E t \in BagToSet(tasks) : CL_PcClose(t)
    \/ \E t \in BagToSet(tasks) : CL_Quit(t)

\* the deadlines of the loop elapse and a cancelled context is seen
FairNoFace ==
    /\ FairCheckin
    /\ WF_vars(\E i \in DOMAIN caps : Cap_PliTimeout(i))
    /\ WF_vars(\E i \in DOMAIN caps : Cap_Timeout(i))

SpecNoFace == Init /\ [][NextNoFace]_vars /\ FairNoFace

\* calls across a reconnect: offers read from the live connection, the
\* connection failing, the reconnect controller
NextRestart ==
    \/ LoginOk
    \/ \E u \in Caller : conn # 0 /\ ReceiveSignal(u, "offer")
    \/ \E t \in BagToSet(tasks), ok \in BOOLEAN : O_Register(t, ok)
    \/ \E t \in BagToSet(tasks), ok \in BOOLEAN, audioOk \in BOOLEAN :
           O_SetRemote(t, ok, audioOk)
    \/ \E t \in BagToSet(tasks), ok \in BOOLEAN : O_Answer(t, ok)
    \/ \E t \in BagToSet(tasks), ok \in BOOLEAN : O_SendAnswer(t, ok)
    \/ \E t \in BagToSet(tasks) : O_Flip(t)
    \/ \E t \in BagToSet(tasks) : O_Drain(t)
    \/ \E t \in BagToSet(tasks) : CL_Lookup(t)
    \/ \E t \in BagToSet(tasks) : CL_Once(t)
    \/ \E t \in BagToSet(tasks) : CL_Audio(t)
    \/ \E t \in BagToSet(tasks) : CL_PcClose(t)
    \/ \E t \in BagToSet(tasks) : CL_Quit(t)
    \/ \E k \in DOMAIN readers : R_Top(k)
    \/ \E k \in DOMAIN readers : ReadError(k)
    \/ \E k \in DOMAIN pingers : P_Fail(k)
    \/ HD_Enter
    \/ RC_LoopHead
    \/ RC_WaitElapsed
    \/ RC_AttemptClose
    \/ RC_LoginOk
    \/ RC_LoginFail
    \/ RC_Emit
    \/ HD_Exit

SpecRestart == Init /\ [][NextRestart]_vars

\* the user whose call meets no failure while the caller's does
Bystander == Users \ Caller

\* two calls side by side: the bystander's offer is answered and stays, the
\* caller's call meets the per-session failures (offer errors,
\* the capture deadline, one prompt that is rejected or times out)
NextSideBySide ==
    \/ LoginOk
    \/ \E u \in Users : FirstCall(u) /\ Signal(u, "offer")
    \/ \E t \in BagToSet(tasks), ok \in BOOLEAN :
           (ok \/ t.user \in Caller) /\ O_Register(t, ok)
    \/ \E t \in BagToSet(tasks), ok \in BOOLEAN :
           (ok \/ t.user \in Caller) /\ O_SetRemote(t, ok, TRUE)
    \/ \E t \in BagToSet(tasks), ok \in BOOLEAN :
           (ok \/ t.user \in Caller) /\ O_Answer(t, ok)
    \/ \E t \in BagToSet(tasks), ok \in BOOLEAN :
           (ok \/ t.user \in Caller) /\ O_SendAnswer(t, ok)
    \/ \E t \in BagToSet(tasks) : O_Flip(t)
    \/ \E t \in BagToSet(tasks) : O_Drain(t)
    \/ \E t \in BagToSet(tasks) : CL_Lookup(t)
    \/ \E t \in BagToSet(tasks) : CL_Once(t)
    \/ \E t \in BagToSet(tasks) : CL_Audio(t)
    \/ \E t \in BagToSet(tasks) : CL_PcClose(t)
    \/ \E t \in BagToSet(tasks) : CL_Quit(t)
    \/ \E sid \in DOMAIN sess : sess[sid].user \in Caller /\ OnTrack(sid)
    \/ \E i \in DOMAIN caps : Cap_Lookup(i)
    \/ \E i \in DOMAIN caps : Cap_Cancelled(i)
    \/ \E i \in DOMAIN caps : Cap_Timeout(i)
    \/ \E i \in DOMAIN caps : Cap_FailDM(i)
    \/ \E t \in BagToSet(tasks) : E_Lookup(t)
    \/ \E t \in BagToSet(tasks) : E_Once(t)
    \/ \E u \in Caller : confs = <<>> /\ startConfirmationTimeout(u)
    \/ \E id \in DOMAIN confs : TimerFire(id)
    \/ \E id \in DOMAIN confs : handleConfirmationTimeout(id)
    \/ \E id \in DOMAIN confs : handleConfirmationTimeoutNotify(id)
    \/ \E u \in Caller : replies[u] = 0 /\ HandleLocationReply(u, OutsideReply[1], OutsideReply[2])
    \/ \E id \in DOMAIN confs : HandleLocationReplyInvalid(id)

SpecSideBySide == Init /\ [][NextSideBySide]_vars

\* one call with its subordinate goroutines: the capture loop, its RTP
\* reader, the PLI sender and the audio worker, against the welcome item,
\* one prompt whose reply is rejected (so PlayNow finds ap.mu free), a
\* hang-up and the cleanup
NextAudio ==
    \/ LoginOk
    \/ \E u \in Caller : FirstCall(u) /\ Signal(u, "offer")
    \/ \E u \in Caller : ReceiveSignal(u, "quit")
    \/ \E t \in BagToSet(tasks) : O_Register(t, TRUE)
    \/ \E t \in BagToSet(tasks) : O_SetRemote(t, TRUE, TRUE)
    \/ \E t \in BagToSet(tasks) : O_Answer(t, TRUE)
    \/ \E t \in BagToSet(tasks) : O_SendAnswer(t, TRUE)
    \/ \E t \in BagToSet(tasks) : O_Flip(t)
    \/ \E t \in BagToSet(tasks) : O_Drain(t)
    \/ \E sid \in DOMAIN sess : PcConnected(sid)
    \/ \E sid \in DOMAIN sess : OnTrack(sid)
    \/ \E i \in DOMAIN caps : Cap_Lookup(i)
    \/ \E i \in DOMAIN caps : Cap_Cancelled(i)
    \/ \E i \in DOMAIN caps : Rtp_Select(i)
    \/ \E i \in DOMAIN caps, sample \in BOOLEAN : Rtp_Packet(i, sample)
    \/ \E i \in DOMAIN caps : Rtp_ReadError(i)
    \/ \E i \in DOMAIN caps, sent \in BOOLEAN : Rtp_Send(i, sent)
    \/ \E i \in DOMAIN caps : Pli_Stop(i)
    \/ \E i \in DOMAIN caps : Pli_Tick(i, TRUE)
    \/ \E u \in Caller :
           connections[u] # 0 /\ confs = <<>> /\ startConfirmationTimeout(u)
    \/ \E u \in Caller : replies[u] = 0 /\ HandleLocationReply(u, OutsideReply[1], OutsideReply[2])
    \/ \E id \in DOMAIN confs : HandleLocationReplyInvalid(id)
    \/ \E t \in BagToSet(tasks) : PN_Recv(t)
    \/ \E sid \in DOMAIN sess : W_Recv(sid)
    \/ \E sid \in DOMAIN sess : W_Stop(sid)
    \/ \E sid \in DOMAIN sess : W_Begin(sid)
    \/ \E sid \in DOMAIN sess : W_Finish(sid)
    \/ \E t \in BagToSet(tasks) : E_Lookup(t)
    \/ \E t \in BagToSet(tasks) : E_Once(t)
    \/ \E t \in BagToSet(tasks) : CL_Lookup(t)
    \/ \E t \in BagToSet(tasks) : CL_Once(t)
    \/ \E t \in BagToSet(tasks) : CL_Audio(t)
    \/ \E t \in BagToSet(tasks) : CL_PcClose(t)
    \/ \E t \in BagToSet(tasks) : CL_Quit(t)

\* every goroutine that can take a step takes one: a select whose Done or
\* stop case is ready is not passed over for ever, a receive or a Lock that
\* can proceed does
FairAudio ==
    /\ WF_vars(\E t \in BagToSet(tasks) : O_Register(t, TRUE))
    /\ WF_vars(\E t \in BagToSet(tasks) : O_SetRemote(t, TRUE, TRUE))
    /\ WF_vars(\E t \in BagToSet(tasks) : O_Answer(t, TRUE))
    /\ WF_vars(\E t \in BagToSet(tasks) : O_SendAnswer(t, TRUE))
    /\ WF_vars(\E t \in BagToSet(tasks) : O_Flip(t))
    /\ WF_vars(\E t \in BagToSet(tasks) : O_Drain(t))
    /\ WF_vars(\E id \in DOMAIN confs : HandleLocationReplyInvalid(id))
    /\ WF_vars(\E t \in BagToSet(tasks) : E_Lookup(t))
    /\ WF_vars(\E t \in BagToSet(tasks) : E_Once(t))
    /\ WF_vars(\E t \in BagToSet(tasks) : CL_Lookup(t))
    /\ WF_vars(\E t \in BagToSet(tasks) : CL_Once(t))
    /\ WF_vars(\E t \in BagToSet(tasks) : CL_Audio(t))
    /\ WF_vars(\E t \in BagToSet(tasks) : CL_PcClose(t))
    /\ WF_vars(\E t \in BagToSet(tasks) : CL_Quit(t))
    /\ WF_vars(\E i \in DOMAIN caps : Cap_Lookup(i))
    /\ WF_vars(\E i \in DOMAIN caps : Cap_Cancelled(i))
    /\ WF_vars(\E i \in DOMAIN caps : Rtp_Select(i))
    /\ WF_vars(\E i \in DOMAIN caps : Rtp_ReadError(i))
    /\ WF_vars(\E i \in DOMAIN caps : Rtp_Send(i, FALSE))
    /\ WF_vars(\E i \in DOMAIN caps : Pli_Stop(i))
    /\ WF_vars(\E t \in BagToSet(tasks) : PN_Recv(t))
    /\ WF_vars(\E sid \in DOMAIN sess : W_Recv(sid))
    /\ WF_vars(\E sid \in DOMAIN sess : W_Stop(sid))
    /\ WF_vars(\E sid \in DOMAIN sess : W_Begin(sid))
    /\ WF_vars(\E sid \in DOMAIN sess : W_Finish(sid))

SpecAudio == Init /\ [][NextAudio]_vars /\ FairAudio

\* the player of one call: the welcome prompt page by page, and the fail
\* prompt that a rejected location reply plays with PlayNow
NextPlayNow ==
    \/ LoginOk
    \/ \E u \in Caller : FirstCall(u) /\ Signal(u, "offer")
    \/ \E t \in BagToSet(tasks) : O_Register(t, TRUE)
    \/ \E t \in BagToSet(tasks) : O_SetRemote(t, TRUE, TRUE)
    \/ \E t \in BagToSet(tasks) : O_Answer(t, TRUE)
    \/ \E t \in BagToSet(tasks) : O_SendAnswer(t, TRUE)
    \/ \E t \in BagToSet(tasks) : O_Flip(t)
    \/ \E t \in BagToSet(tasks) : O_Drain(t)
    \/ \E sid \in DOMAIN sess : PcConnected(sid)
    \/ \E u \in Caller :
           connections[u] # 0 /\ confs = <<>> /\ startConfirmationTimeout(u)
    \/ \E u \in Caller : replies[u] = 0 /\ HandleLocationReply(u, OutsideReply[1], OutsideReply[2])
    \/ \E id \in DOMAIN confs : HandleLocationReplyInvalid(id)
    \/ \E t \in BagToSet(tasks) : PN_Recv(t)
    \/ \E sid \in DOMAIN sess : W_Recv(sid)
    \/ \E sid \in DOMAIN sess : W_Stop(sid)
    \/ \E sid \in DOMAIN sess : W_Begin(sid)
    \/ \E sid \in DOMAIN sess : W_Page(sid)
    \/ \E sid \in DOMAIN sess : W_Finish(sid)
    \/ \E t \in BagToSet(tasks) : E_Lookup(t)
    \/ \E t \in BagToSet(tasks) : E_Once(t)
    \/ \E t \in BagToSet(tasks) : CL_Lookup(t)
    \/ \E t \in BagToSet(tasks) : CL_Once(t)
    \/ \E t \in BagToSet(tasks) : CL_Audio(t)
    \/ \E t \in BagToSet(tasks) : CL_PcClose(t)
    \/ \E t \in BagToSet(tasks) : CL_Quit(t)

SpecPlayNow == Init /\ [][NextPlayNow]_vars

\* a call whose capture fails, with the player of the session at work: the
\* welcome item, the deadlines and the attempt limit of the loop, the
\* failure DM and the delayed end of the call
NextFailAudio ==
    \/ LoginOk
    \/ \E u \in Caller : FirstCall(u) /\ Signal(u, "offer")
    \/ \E t \in BagToSet(tasks) : O_Register(t, TRUE)
    \/ \E t \in BagToSet(tasks) : O_SetRemote(t, TRUE, TRUE)
    \/ \E t \in BagToSet(tasks) : O_Answer(t, TRUE)
    \/ \E t \in BagToSet(tasks) : O_SendAnswer(t, TRUE)
    \/ \E t \in BagToSet(tasks) : O_Flip(t)
    \/ \E t \in BagToSet(tasks) : O_Drain(t)
    \/ \E sid \in DOMAIN sess : PcConnected(sid)
    \/ \E sid \in DOMAIN sess : OnTrack(sid)
    \/ \E i \in DOMAIN caps : Cap_Lookup(i)
    \/ \E i \in DOMAIN caps : Cap_Timeout(i)
    \/ \E i \in DOMAIN caps : Cap_PliTimeout(i)
    \/ \E i \in DOMAIN caps, d \in FailedDetections :
           Cap_Sample(i, TRUE, TRUE, TRUE, d)
    \/ \E i \in DOMAIN caps : Cap_FailDM(i)
    \/ \E sid \in DOMAIN sess : W_Recv(sid)
    \/ \E sid \in DOMAIN sess : W_Stop(sid)
    \/ \E sid \in DOMAIN sess : W_Begin(sid)
    \/ \E sid \in DOMAIN sess : W_Finish(sid)
    \/ \E t \in BagToSet(tasks) : E_Lookup(t)
    \/ \E t \in BagToSet(tasks) : E_Once(t)
    \/ \E t \in BagToSet(tasks) : CL_Lookup(t)
    \/ \E t \in BagToSet(tasks) : CL_Once(t)
    \/ \E t \in BagToSet(tasks) : CL_Audio(t)
    \/ \E t \in BagToSet(tasks) : CL_PcClose(t)
    \/ \E t \in BagToSet(tasks) : CL_Quit(t)

SpecFailAudio == Init /\ [][NextFailAudio]_vars

MaxOffers == 2      \* offers of one caller

\* a caller who sends an offer while an earlier call of theirs is set up or
\* running: both offer handlers, the failure of either peer connection, the
\* capture deadline of either call, and the cleanups they start
NextReoffer ==
    \/ LoginOk
    \/ \E u \in Caller : sigCount["offer"] < MaxOffers /\ Signal(u, "offer")
    \/ \E t \in BagToSet(tasks) : O_Register(t, TRUE)
    \/ \E t \in BagToSet(tasks) : O_SetRemote(t, TRUE, TRUE)
    \/ \E t \in BagToSet(tasks) : O_Answer(t, TRUE)
    \/ \E t \in BagToSet(tasks) : O_SendAnswer(t, TRUE)
    \/ \E t \in BagToSet(tasks) : O_Flip(t)
    \/ \E t \in BagToSet(tasks) : O_Drain(t)
    \/ \E sid \in DOMAIN sess : PcFailed(sid)
    \/ \E sid \in DOMAIN sess : OnTrack(sid)
    \/ \E i \in DOMAIN caps : Cap_Lookup(i)
    \/ \E i \in DOMAIN caps : Cap_Cancelled(i)
    \/ \E i \in DOMAIN caps : Cap_Timeout(i)
    \/ \E i \in DOMAIN caps : Cap_FailDM(i)
    \/ \E t \in BagToSet(tasks) : E_Lookup(t)
    \/ \E t \in BagToSet(tasks) : E_Once(t)
    \/ \E t \in BagToSet(tasks) : CL_Lookup(t)
    \/ \E t \in BagToSet(tasks) : CL_Once(t)
    \/ \E t \in BagToSet(tasks) : CL_Audio(t)
    \/ \E t \in BagToSet(tasks) : CL_PcClose(t)
    \/ \E t \in BagToSet(tasks) : CL_Quit(t)

\* every goroutine that can take a step takes it; the environment (offers,
\* connection failures, tracks, deadlines) owes nothing
FairReoffer ==
    /\ WF_vars(\E t \in BagToSet(tasks) : O_Register(t, TRUE))
    /\ WF_vars(\E t \in BagToSet(tasks) : O_SetRemote(t, TRUE, TRUE))
    /\ WF_vars(\E t \in BagToSet(tasks) : O_Answer(t, TRUE))
    /\ WF_vars(\E t \in BagToSet(tasks) : O_SendAnswer(t, TRUE))
    /\ WF_vars(\E t \in BagToSet(tasks) : O_Flip(t))
    /\ WF_vars(\E t \in BagToSet(tasks) : O_Drain(t))
    /\ WF_vars(\E i \in DOMAIN caps : Cap_Lookup(i))
    /\ WF_vars(\E i \in DOMAIN caps : Cap_Cancelled(i))
    /\ WF_vars(\E i \in DOMAIN caps : Cap_Timeout(i))
    /\ WF_vars(\E i \in DOMAIN caps : Cap_FailDM(i))
    /\ WF_vars(\E t \in BagToSet(tasks) : E_Lookup(t))
    /\ WF_vars(\E t \in BagToSet(tasks) : E_Once(t))
    /\ WF_vars(\E t \in BagToSet(tasks) : CL_Lookup(t))
    /\ WF_vars(\E t \in BagToSet(tasks) : CL_Once(t))
    /\ WF_vars(\E t \in BagToSet(tasks) : CL_Audio(t))
    /\ WF_vars(\E t \in BagToSet(tasks) : CL_PcClose(t))
    /\ WF_vars(\E t \in BagToSet(tasks) : CL_Quit(t))

SpecReoffer == Init /\ [][NextReoffer]_vars /\ FairReoffer

\* offer handlers whose steps can fail, for up to MaxOffers offers of one
\* caller, and the cleanups the failures start
NextOfferFails ==
    \/ LoginOk
    \/ \E u \in Caller : sigCount["offer"] < MaxOffers /\ Signal(u, "offer")
    \/ \E t \in BagToSet(tasks) : O_Register(t, TRUE)
    \/ \E t \in BagToSet(tasks), ok \in BOOLEAN : O_SetRemote(t, ok, TRUE)
    \/ \E t \in BagToSet(tasks), ok \in BOOLEAN : O_Answer(t, ok)
    \/ \E t \in BagToSet(tasks), ok \in BOOLEAN : O_SendAnswer(t, ok)
    \/ \E t \in BagToSet(tasks) : O_Flip(t)
    \/ \E t \in BagToSet(tasks) : O_Drain(t)
    \/ \E t \in BagToSet(tasks) : CL_Lookup(t)
    \/ \E t \in BagToSet(tasks) : CL_Once(t)
    \/ \E t \in BagToSet(tasks) : CL_Audio(t)
    \/ \E t \in BagToSet(tasks) : CL_PcClose(t)
    \/ \E t \in BagToSet(tasks) : CL_Quit(t)

\* every goroutine that can take a step takes it, with whichever outcome
FairOfferFails ==
    /\ WF_vars(\E t \in BagToSet(tasks) : O_Register(t, TRUE))
    /\ WF_vars(\E t \in BagToSet(tasks), ok \in BOOLEAN : O_SetRemote(t, ok, TRUE))
    /\ WF_vars(\E t \in BagToSet(tasks), ok \in BOOLEAN : O_Answer(t, ok))
    /\ WF_vars(\E t \in BagToSet(tasks), ok \in BOOLEAN : O_SendAnswer(t, ok))
    /\ WF_vars(\E t \in BagToSet(tasks) : O_Flip(t))
    /\ WF_vars(\E t \in BagToSet(tasks) : O_Drain(t))
    /\ WF_vars(\E t \in BagToSet(tasks) : CL_Lookup(t))
    /\ WF_vars(\E t \in BagToSet(tasks) : CL_Once(t))
    /\ WF_vars(\E t \in BagToSet(tasks) : CL_Audio(t))
    /\ WF_vars(\E t \in BagToSet(tasks) : CL_PcClose(t))
    /\ WF_vars(\E t \in BagToSet(tasks) : CL_Quit(t))

SpecOfferFails == Init /\ [][NextOfferFails]_vars /\ FairOfferFails

----------------------------------------------------------------------------
(* Properties of the cid registry, checked under SpecCid                   *)

\* the callers whose PendingRequest is registered
Registered(p) == callPc[p] \in {"send", "wait", "unreg"}

\* a caller holds a result: the return value of sendWithResponse is fixed
HasResult(p) == callPc[p] \in {"unreg", "close", "done"}

RespCountOf(c) == IF c \in DOMAIN respCount THEN respCount[c] ELSE 0

\* C3 as stated: sendWithResponse returns only a response carrying the cid it
\* stamped, a timeout or a cancellation, and at most one response per cid.
C3_OnlyOwnResponseTimeoutOrCancel ==
    /\ \A p \in Callers :
         HasResult(p) =>
           /\ callRes[p].kind \in {"resp", "timeout", "cancelled"}
           /\ callRes[p].kind = "resp" => callRes[p].env.cid = callCid[p]
    /\ \A c \in DOMAIN respCount : respCount[c] <= 1

\* C3 amended: sendWithResponse returns a response carrying the cid it
\* stamped, a timeout, a cancellation, or a not-connected / marshal / write
\* error; never a response with another cid, and at most one response per cid.
C3_ResponseCorrelation ==
    /\ \A p \in Callers :
         HasResult(p) =>
           /\ callRes[p].kind \in {"resp", "timeout", "cancelled",
                                   "notConnected", "marshalErr", "writeErr"}
           /\ callRes[p].kind = "resp" => callRes[p].env.cid = callCid[p]
           /\ callRes[p].kind # "resp" => callRes[p].env = NoEnv
    /\ \A c \in DOMAIN respCount : respCount[c] <= 1

\* C3 witness: a caller has received its response, a second frame with the
\* same cid sits in its slot, and another caller is still waiting.
C3_Witness ==
    \E p, q \in Callers :
        /\ p # q
        /\ callPc[p] = "unreg"
        /\ callRes[p].kind = "resp"
        /\ chans[callCh[p]].buf # <<>>
        /\ callPc[q] = "wait"

\* C9: a cid handed out by generateCID is not a key of the pending-response
\* registry, and every registered request has its own cid and its own slot.
C9_CidFresh ==
    /\ \A p \in Callers :
         callPc[p] = "reg" => callCid[p] \notin DOMAIN cidHandlers
    /\ \A p \in Callers :
         Registered(p) =>
           /\ callCid[p] \in DOMAIN cidHandlers
           /\ cidHandlers[callCid[p]] = callCh[p]
    /\ \A p, q \in Callers :
         (p # q /\ Registered(p) /\ Registered(q)) => callCid[p] # callCid[q]

\* C9 witness: one request is registered and waiting while the allocator has
\* just handed a cid to a concurrent caller.
C9_Witness ==
    \E p, q \in Callers :
        /\ callPc[p] = "wait"
        /\ callPc[q] = "reg"

\* C10: when sendWithResponse has returned, whatever the result, the registry
\* does not contain the cid it registered; every registry entry belongs to a
\* call still in progress.
C10_RemovedOnReturn ==
    /\ \A p \in Callers :
         callPc[p] \in {"close", "done"} => callCid[p] \notin DOMAIN cidHandlers
    /\ \A c \in DOMAIN cidHandlers :
         \E p \in Callers : Registered(p) /\ callCid[p] = c

\* C10 witness: one call has returned with a write error and another with a
\* response.
C10_Witness ==
    \E p, q \in Callers :
        /\ callPc[p] = "done" /\ callRes[p].kind = "writeErr"
        /\ callPc[q] = "done" /\ callRes[q].kind = "resp"

----------------------------------------------------------------------------
(* Properties of the reconnect controller, checked under SpecReconnect     *)

\* the schedule C8 states, in seconds
BackoffSchedule == <<5, 10, 20, 40, 60, 60, 60, 60, 60, 60>>

\* C8: the waits that precede the attempts of one reconnect loop are 5, 10,
\* 20, 40, 60, 60, 60, 60, 60, 60 seconds; there is no eleventh attempt, and
\* after ten failed attempts the loop ends with the max-attempts error.
C8_BackoffDelays ==
    /\ attempts <= Len(BackoffSchedule)
    /\ Len(waits) <= Len(BackoffSchedule)
    /\ \A i \in 1..Len(waits) : waits[i] = BackoffSchedule[i]
    /\ rcPc = "wait" => retryInterval = BackoffSchedule[attempts]
    /\ (rcPc = "exit" /\ failed = Len(BackoffSchedule)) =>
          /\ rcErr = "maxAttempts"
          /\ waits = BackoffSchedule
    /\ rcErr = "maxAttempts" => failed = Len(BackoffSchedule)

\* C8 witness: a loop has ended after ten failed attempts.
C8_Witness ==
    /\ rcPc = "exit"
    /\ failed = 10
    /\ Len(waits) = 10

----------------------------------------------------------------------------
(* Session cleanup *)

\* a cleanupConnection call holds session sid and has not returned
CleanupRunning(sid) ==
    \E t \in BagToSet(tasks) :
        /\ t.sid = sid
        /\ t.kind # "closeall"
        /\ t.pc \in {"cl_once", "cl_audio", "cl_pc", "cl_quit"}

\* C1: however many cleanupConnection calls run for a user, the cleanup
\* body of a session runs at most once, with at most one QUIT envelope, one
\* close of the peer connection and one close of the audio stop signal; and
\* once the call that found the session has returned, each happened
\* exactly once.
C1_CleanupBodyOnce ==
    \A sid \in DOMAIN sess :
        /\ sess[sid].body <= 1
        /\ sess[sid].quit <= 1
        /\ sess[sid].pcClose <= 1
        /\ sess[sid].audioStop <= 1
        /\ (sess[sid].taken > 0 /\ ~CleanupRunning(sid)) =>
               /\ sess[sid].body = 1
               /\ sess[sid].quit = 1
               /\ sess[sid].pcClose = 1
               /\ sess[sid].audioStop = 1

\* a second cleanupConnection call for the user starts while the body of
\* the first is running
C1_Witness ==
    \E sid \in DOMAIN sess :
        /\ sess[sid].body = 1
        /\ sess[sid].pcClose = 1
        /\ sess[sid].quit = 0
        /\ Cardinality({t \in BagToSet(tasks) :
                          t.user = sess[sid].user /\ t.pc = "cl_lookup"}) >= 1

----------------------------------------------------------------------------
(* Pending ICE candidates *)

\* C2: the candidates of a user received before iceReady became true reach
\* pc.AddICECandidate in the order in which they were received.
C2_PendingAppliedInReceiptOrder ==
    \A sid \in DOMAIN sess :
        \A i \in DOMAIN sess[sid].added, j \in DOMAIN sess[sid].added :
            (i < j /\ sess[sid].added[i] \in preFlip /\ sess[sid].added[j] \in preFlip)
                => sess[sid].added[i] < sess[sid].added[j]

----------------------------------------------------------------------------
(* Location confirmations *)

\* a timer callback ran its timeout path on confirmation id
TimeoutRanOn(id) == \E j \in DOMAIN confs : confs[j].victim = id

\* C4: a confirmation is deleted from the registry at most once, by a
\* reply, by its own timer or by shutdown, and the reply path and the
\* timeout path never both run for it.
C4_RemovedOnceByOne ==
    \A id \in DOMAIN confs :
        /\ confs[id].removals <= 1
        /\ confs[id].removedBy \in {"none", "reply", "timer", "shutdown"}
        /\ \A j \in DOMAIN confs : confs[j].victim = id => j = id
        /\ ~(confs[id].replyPc # "none" /\ TimeoutRanOn(id))

\* C5: once the timeout of a user's confirmation has been handled, a
\* location reply of that user changes nothing: the registry, every
\* confirmation's DMs and POSTs, the sessions and the captures stay as
\* they are.
C5_LateReplyNoOp ==
    [][\A u \in Users :
          (TimedOut(u) /\ replies'[u] = replies[u] + 1)
              => UNCHANGED <<pendingConfirmations, confs, sessVars, capVars>>]_vars

\* a reply arrived after the timeout was handled
C5_Witness ==
    \E u \in Users :
        /\ lastReply[u] = "afterTimeout"
        /\ confs[LastConf(u)].timer = "done"
        /\ confs[LastConf(u)].timeoutDMs = 1

\* C6: the timer of a confirmation that a re-arm replaced never runs its
\* timeout path: its callback deletes no state and sends no timeout DM.
C6_PriorTimerHarmless ==
    \A id \in DOMAIN confs :
        confs[id].replaced =>
            /\ confs[id].victim = 0
            /\ confs[id].timeoutDMs = 0

----------------------------------------------------------------------------
(* Capture loop *)

\* C7: the capture loop takes its success exit only with a response whose
\* identityVerified is true.
C7_SuccessOnlyWhenVerified ==
    \A i \in DOMAIN caps :
        (caps[i].pc \in {"succ_wait", "succ_wfh", "succ_sleep"}
            \/ caps[i].result = "success")
                => caps[i].identityVerified

----------------------------------------------------------------------------
(* Properties of a whole check-in, checked under SpecCheckin               *)

\* the session is out of the registry and closed: context cancelled, audio
\* worker stopped, peer connection closed
Terminated(sid) ==
    /\ connections[sess[sid].user] # sid
    /\ sess[sid].ctx = "cancelled"
    /\ sess[sid].audioStop >= 1
    /\ sess[sid].pcClose >= 1

\* the caller of the session made no other call
OnlySession(sid) ==
    \A s \in DOMAIN sess : sess[s].user = sess[sid].user => s = sid

\* the prompt of capture loop i was answered from inside an office radius
\* and the update-status POST came back 2xx
HappyPath(i) ==
    /\ i \in DOMAIN caps
    /\ ~caps[i].isWFH
    /\ caps[i].conf # 0
    /\ confs[caps[i].conf].isValidLocation
    /\ confs[caps[i].conf].status = "ok"

\* the call of capture loop i is over, or its caller has called again
CallEnded(i) ==
    /\ i \in DOMAIN caps
    /\ caps[i].sid # 0
    /\ Terminated(caps[i].sid) \/ ~OnlySession(caps[i].sid)

C11_OnePostOneSuccessDM ==
    \A i \in DOMAIN caps :
        HappyPath(i) =>
            /\ confs[caps[i].conf].posts = 1
            /\ confs[caps[i].conf].successDMs = 1
            /\ confs[caps[i].conf].invalidDMs = 0
            /\ ~TimeoutRanOn(caps[i].conf)

\* C11: after a recognition success with isWFH = false, a location reply
\* inside an office radius and a 2xx answer to the update-status POST, there
\* has been exactly one APPROVED POST and exactly one success DM, no failure
\* DM, and the session of the call is eventually out of the registry and
\* closed.
C11_HappyPath ==
    /\ []C11_OnePostOneSuccessDM
    /\ \A i \in 1..MaxSessions :
           HappyPath(i) ~> CallEnded(i)

C11_Witness ==
    \E i \in DOMAIN caps :
        /\ HappyPath(i)
        /\ confs[caps[i].conf].successDMs = 1
        /\ OnlySession(caps[i].sid)
        /\ Terminated(caps[i].sid)
        /\ sess[caps[i].sid].body = 1

\* the reply to confirmation id lay outside every office radius and its
\* handler has finished
Rejected(id) ==
    /\ id \in DOMAIN confs
    /\ confs[id].replyPc = "done"
    /\ ~confs[id].isValidLocation

\* a timer callback took confirmation id as timed out and has finished
Expired(id) ==
    /\ id \in DOMAIN confs
    /\ confs[id].removedBy = "timer"
    /\ confs[confs[id].removerTimer].timer = "done"

\* the user of confirmation id has no session in the registry
UserAbsent(id) ==
    /\ id \in DOMAIN confs
    /\ connections[confs[id].user] = 0

C12_OneFailureDMNoPost ==
    \A id \in DOMAIN confs :
        /\ Rejected(id) =>
              /\ confs[id].invalidDMs = 1
              /\ confs[id].posts = 0
              /\ confs[id].successDMs = 0
              /\ ~TimeoutRanOn(id)
        /\ Expired(id) =>
              /\ confs[confs[id].removerTimer].timeoutDMs = 1
              /\ confs[id].replyPc = "none"
              /\ confs[id].invalidDMs = 0
              /\ confs[id].posts = 0
              /\ confs[id].successDMs = 0

\* C12: when a pending confirmation ends by a reply outside the office
\* radius or by expiry of its timer, exactly one failure DM has been sent
\* for it, no update-status POST has been made, and the user is eventually
\* absent from the session registry.
C12_RejectionOrExpiry ==
    /\ []C12_OneFailureDMNoPost
    /\ \A id \in 1..MaxConfs :
           (Rejected(id) \/ Expired(id)) ~> UserAbsent(id)

\* a confirmation expired while the call was still registered, and the call
\* has been ended since
C12_Witness ==
    \E id \in DOMAIN confs, sid \in DOMAIN sess :
        /\ Expired(id)
        /\ sess[sid].user = confs[id].user
        /\ sess[sid].endCallOnce
        /\ Terminated(sid)
        /\ connections[confs[id].user] = 0

\* C13: a capture loop whose recognition answered isWFH = true sends the
\* success DM before it schedules the end of the call, and never sends the
\* confirmation prompt; every confirmation state, and so every timer and
\* every update-status POST, belongs to a loop whose answer was not isWFH.
C13_WFHSkipsConfirmation ==
    /\ \A i \in DOMAIN caps :
          caps[i].isWFH =>
              /\ caps[i].confPc = "none"
              /\ caps[i].conf = 0
              /\ caps[i].successDMs = IF caps[i].pc = "succ_wfh" THEN 0 ELSE 1
    /\ \A id \in DOMAIN confs :
          \E i \in DOMAIN caps : caps[i].conf = id /\ ~caps[i].isWFH

C13_Witness ==
    \E i \in DOMAIN caps :
        /\ caps[i].isWFH
        /\ caps[i].result = "success"
        /\ caps[i].successDMs = 1
        /\ Terminated(caps[i].sid)
        /\ confs = <<>>

----------------------------------------------------------------------------
(* Properties of the capture loop's failures, checked under SpecNoFace     *)

\* capture loop i waits for its first keyframe
AwaitsKeyframe(i) ==
    /\ i \in DOMAIN caps
    /\ caps[i].pc = "loop"
    /\ ~caps[i].firstKeyframeReceived

\* capture loop i has seen a keyframe or has left its loop
KeyframeOrLeft(i) ==
    /\ i \in DOMAIN caps
    /\ caps[i].firstKeyframeReceived \/ caps[i].pc # "loop"

\* capture loop i failed with pli_timeout
PliFailed(i) ==
    /\ i \in DOMAIN caps
    /\ caps[i].reason = "pli_timeout"

C14_PliFailure ==
    \A i \in DOMAIN caps :
        PliFailed(i) =>
            /\ ~caps[i].firstKeyframeReceived
            /\ caps[i].totalAttempts = 0
            /\ caps[i].failDMs = IF caps[i].pc = "fail_dm" THEN 0 ELSE 1
            /\ caps[i].successDMs = 0

----------------------------------------------------------------------------
(* Properties across a reconnect, checked under SpecRestart                *)

\* no handler, cleanup or reconnect step is running or waiting to run
Settled ==
    /\ tasks = EmptyBag
    /\ rcPc = "idle"
    /\ hdPending = 0

\* C15: when the reconnect controller has succeeded and emitted reconnected
\* and every task has run, every session made on an earlier connection is
\* out of the registry and closed.
C15_SessionsTornDownOnReconnect ==
    \A sid \in DOMAIN sess :
        (reconnected > 0 /\ Settled /\ conn # 0 /\ sess[sid].epoch < conn)
            => Terminated(sid)

----------------------------------------------------------------------------
(* Properties of the reconnect controller against Close(), checked under   *)
(* SpecReconnect                                                           *)

\* C16: once Close() has run, no connection is dialled, no reconnected
\* event is emitted and the connection pointer stays nil, wherever the
\* reconnect loop was when Close() ran.
C16_NoReconnectAfterClose ==
    [][closePc = "done" =>
          /\ connGen' = connGen
          /\ reconnected' = reconnected
          /\ conn' = 0]_vars

----------------------------------------------------------------------------
(* Properties of the global shutdown, checked under SpecCleanup            *)

\* C17: when CloseAll returns, after its wait of at most 5 s, the session
\* registry and the confirmation registry are empty.
C17_CloseAllLeavesRegistriesEmpty ==
    [][(caPc = "wait" /\ caPc' = "done") =>
          \A u \in Users :
              /\ connections'[u] = 0
              /\ pendingConfirmations'[u] = 0]_vars

----------------------------------------------------------------------------
(* Properties of two calls side by side, checked under SpecSideBySide      *)

\* C18: a step of the session, capture or confirmation handlers leaves the
\* transport alone (connection pointer, hard-closed flag, context) and
\* starts no reconnect; and whatever fails in the caller's call, the
\* bystander's session stays registered with its context live.
C18_FailuresStayInSession ==
    [][/\ appVars' # appVars =>
              UNCHANGED <<conn, connGen, ctxDone, isHardDisconnect, closePc,
                          isRetrying, hdPending, rcPc, reconnected>>
       /\ \A v \in Bystander :
              connections[v] # 0 =>
                  /\ connections'[v] = connections[v]
                  /\ sess'[connections[v]].ctx = "live"
                  /\ sess'[connections[v]].pcClose = 0]_vars

\* the caller's capture failed, a confirmation of theirs timed out, their
\* session is gone, and the bystander's session is registered and live
C18_Witness ==
    \E i \in DOMAIN caps, id \in DOMAIN confs, v \in Bystander :
        /\ caps[i].user \in Caller
        /\ caps[i].result = "timeout"
        /\ Terminated(caps[i].sid)
        /\ confs[id].timeoutDMs = 1
        /\ conn # 0
        /\ connections[v] # 0
        /\ sess[connections[v]].iceReady
        /\ sess[connections[v]].ctx = "live"

----------------------------------------------------------------------------
(* Termination of a session's goroutines, checked under SpecAudio          *)

\* the cleanup body has run to its end for the session
Cleaned(sid) ==
    /\ sid \in DOMAIN sess
    /\ sess[sid].body > 0
    /\ sess[sid].quit > 0

\* the capture loops started on the session's track have returned, with
\* their RTP readers and PLI senders
CaptureTasksDone(sid) ==
    \A i \in DOMAIN caps :
        caps[i].own = sid =>
            /\ caps[i].pc = "done"
            /\ caps[i].rtp = "done"
            /\ caps[i].pli = "done"

\* the processQueue goroutine of the session's player has returned, or the
\* session never had a player
WorkerDone(sid) == sess[sid].worker \in {"none", "done"}

\* the worker waits for ap.mu, which a PlayNow caller holds while it waits
\* in its drain loop for an item that the worker has taken
WorkerStuck(sid) ==
    /\ sess[sid].worker = "lock"
    /\ sess[sid].apMu
    /\ sess[sid].queue = <<>>

\* C19: after the cleanup has run for a session, its capture loop, the
\* loop's RTP reader, its PLI sender and its audio worker all eventually
\* return
C19_SubordinatesTerminate ==
    \A sid \in 1..MaxSessions :
        Cleaned(sid) ~> (sid \in DOMAIN sess /\ CaptureTasksDone(sid)
                            /\ WorkerDone(sid))

\* the part of C19 that the code keeps: the capture loop, its RTP reader
\* and its PLI sender return after the cleanup
CaptureTasksTerminate ==
    \A sid \in 1..MaxSessions :
        Cleaned(sid) ~> (sid \in DOMAIN sess /\ CaptureTasksDone(sid))

----------------------------------------------------------------------------
(* The iceReady flag and the pending queue, checked under SpecIce          *)

\* C20: in every step and for every session, iceReady once true stays true,
\* and a session whose iceReady is true has an empty pendingICE queue: no
\* handler queues a candidate after the flip
C20_IceReadyMonotoneQueueEmpty ==
    [][\A sid \in DOMAIN sess' :
          /\ sess'[sid].iceReady => sess'[sid].pendingICE = <<>>
          /\ (sid \in DOMAIN sess /\ sess[sid].iceReady) => sess'[sid].iceReady]_vars

\* a session past its flip that has added a candidate drained from the
\* queue and a candidate that arrived after the flip
C20_Witness ==
    \E sid \in DOMAIN sess :
        /\ sess[sid].iceReady
        /\ sess[sid].pendingICE = <<>>
        /\ \E k \in DOMAIN sess[sid].added : sess[sid].added[k] \in preFlip
        /\ \E k \in DOMAIN sess[sid].added : sess[sid].added[k] \notin preFlip

----------------------------------------------------------------------------
(* The fail audio of a failed check-in, checked under SpecFailAudio        *)

\* the session has a player and the fail item is registered: the prompt can
\* be played
CanPlayFail(sid) ==
    AudioEnabled /\ "checkin_fail" \in AudioLibrary /\ sess[sid].player

\* the teardown of the session has begun
TornDown(sid) == sess[sid].body > 0

\* C21: a failure DM (capture failure, rejected location, confirmation
\* timeout) sent while the session was registered is followed by the fail
\* audio before the session is torn down: no torn-down session with a
\* player has had such a DM without the prompt having been played
C21_FailAudioBeforeTeardown ==
    /\ \A i \in DOMAIN caps :
           (caps[i].failDMs > 0 /\ caps[i].failSid # 0
               /\ CanPlayFail(caps[i].failSid) /\ TornDown(caps[i].failSid))
           => "checkin_fail" \in sess[caps[i].failSid].played
    /\ \A id \in DOMAIN confs :
           (confs[id].failSid # 0
               /\ CanPlayFail(confs[id].failSid) /\ TornDown(confs[id].failSid))
           => "checkin_fail" \in sess[confs[id].failSid].played


----------------------------------------------------------------------------
(* The location validator                                                  *)

\* the entries of the offices file that are enabled
EnabledEntries == {k \in DOMAIN locationConfig.file : locationConfig.file[k].Enabled}

\* the squared distance from a reply to the k-th entry of the file
DistanceTo(k, lat, lon) ==
    LET o == locationConfig.file[k]
    IN (lat - o.Latitude) * (lat - o.Latitude)
           + (lon - o.Longitude) * (lon - o.Longitude)

WithinRadius(k, lat, lon) ==
    LET o == locationConfig.file[k]
    IN DistanceTo(k, lat, lon) <= o.RadiusMeters * o.RadiusMeters

\* the enabled entry at minimum distance, the first of the file among equals
IsNearest(k, lat, lon) ==
    /\ k \in EnabledEntries
    /\ \A j \in EnabledEntries :
           \/ DistanceTo(k, lat, lon) < DistanceTo(j, lat, lon)
           \/ DistanceTo(k, lat, lon) = DistanceTo(j, lat, lon) /\ k <= j

\* a reply that reached the office search: validation enabled, not (0,0),
\* coordinates in range
Searched(c) ==
    /\ c.replyPc # "none"
    /\ locationConfig.Enabled
    /\ ~(c.latitude = 0 /\ c.longitude = 0)
    /\ c.latitude >= -90 /\ c.latitude <= 90
    /\ c.longitude >= -180 /\ c.longitude <= 180

\* C22: a reply whose coordinates pass the range checks is accepted iff the
\* nearest enabled office, the one at minimum distance (the first of the
\* file among offices at the same distance), has distance <= its own
\* radius; so a reply inside the radius of a farther office and outside the
\* radius of the nearest one is rejected, whatever the enabled offices are
C22_NearestOfficeDecides ==
    \A id \in DOMAIN confs :
        Searched(confs[id]) =>
            \A k \in EnabledEntries :
                IsNearest(k, confs[id].latitude, confs[id].longitude) =>
                    (confs[id].isValidLocation
                        <=> WithinRadius(k, confs[id].latitude, confs[id].longitude))

\* a reply inside the radius of a farther enabled office and outside the
\* radius of the nearest one has been rejected and answered with the
\* failure DM
C22_Witness ==
    \E id \in DOMAIN confs :
        /\ Searched(confs[id])
        /\ confs[id].invalidDMs = 1 /\ confs[id].posts = 0
        /\ \E k, j \in EnabledEntries :
               /\ IsNearest(k, confs[id].latitude, confs[id].longitude)
               /\ ~WithinRadius(k, confs[id].latitude, confs[id].longitude)
               /\ DistanceTo(k, confs[id].latitude, confs[id].longitude)
                      < DistanceTo(j, confs[id].latitude, confs[id].longitude)
               /\ WithinRadius(j, confs[id].latitude, confs[id].longitude)


\* C23: a reply with the coordinates (0,0) is rejected under every
\* configuration, validation disabled included: it is never followed by the
\* status-update POST nor by the success DM
C23_ZeroZeroRejected ==
    \A id \in DOMAIN confs :
        (confs[id].replyPc # "none"
            /\ confs[id].latitude = 0 /\ confs[id].longitude = 0)
        => /\ ~confs[id].isValidLocation
           /\ confs[id].posts = 0
           /\ confs[id].successDMs = 0


----------------------------------------------------------------------------
(* A second offer of a caller                                              *)

\* the state was made by an offer handler and the registry holds another
\* state, or none, for its user
Unregistered(sid) == sid \in DOMAIN sess /\ connections[sess[sid].user] # sid

PcClosedAndCancelled(sid) ==
    sid \in DOMAIN sess /\ sess[sid].pcClose > 0 /\ sess[sid].ctx = "cancelled"

\* C24: an offer for a user who has a registered session leaks nothing:
\* every peer connection made by an offer handler is the one registered for
\* its user, or is eventually closed with its cancel signal fired
C24_NoSessionLeak ==
    \A sid \in 1..MaxOffers : Unregistered(sid) ~> PcClosedAndCancelled(sid)

\* C25: a cleanup started by an earlier session of a user (its connection
\* state callback, its delayed end of call, its capture failure) never
\* deletes and tears down a later session of the same user
C25_EarlierTriggerSparesLater ==
    \A sid \in DOMAIN sess :
        sess[sid].body > 0 =>
            \A o \in sess[sid].takenFrom : o = 0 \/ o >= sid


----------------------------------------------------------------------------
(* Late response frames                                                    *)

\* C26: a response frame for a request that has timed out or returned is
\* dropped and the reader keeps running: whatever the interleaving of
\* resolveCID with the return of sendWithResponse, the reader never sends on
\* a response channel that has been closed
C26_NoDeliveryAfterReclaim ==
    /\ ~crashed
    /\ \A k \in DOMAIN readers : readers[k].pc # "panicked"


----------------------------------------------------------------------------
(* The drain of the pending candidates                                     *)

\* the candidates of a state that went through pendingICE
WasQueued(sid) == {sess[sid].queued[n] : n \in DOMAIN sess[sid].queued}

\* where a queued candidate stands in the order of the appends
QueuePlace(sid, c) == CHOOSE n \in DOMAIN sess[sid].queued : sess[sid].queued[n] = c

\* C27: after the flip the queued candidates reach pc.AddICECandidate first
\* and in the order of the queue: a candidate that arrives after the flip is
\* added only when every queued candidate has been added, however the drain
\* of the offer handler interleaves with the ICE handlers
C27_QueuedBeforeLater ==
    \A sid \in DOMAIN sess :
        \A i \in DOMAIN sess[sid].added, j \in DOMAIN sess[sid].added :
            i < j =>
                /\ (sess[sid].added[i] \in WasQueued(sid)
                        /\ sess[sid].added[j] \in WasQueued(sid))
                   => QueuePlace(sid, sess[sid].added[i])
                          < QueuePlace(sid, sess[sid].added[j])
                /\ sess[sid].added[i] \notin preFlip
                   => sess[sid].added[j] \notin WasQueued(sid)


----------------------------------------------------------------------------
(* The order of cleanupConnection                                          *)

\* the steps of cleanupConnection on a state have happened in the order:
\* delete from the registry, cancel, close the audio stop channel, close
\* the peer connection, QUIT
CleanupInOrder(sid) ==
    /\ sess[sid].taken > 0 => connections[sess[sid].user] # sid
    /\ sess[sid].body > 0 => sess[sid].taken > 0 /\ sess[sid].ctx = "cancelled"
    /\ sess[sid].audioStop > 0 => sess[sid].body > 0
    /\ sess[sid].pcClose > 0 => sess[sid].audioStop > 0
    /\ sess[sid].quit > 0 => sess[sid].pcClose > 0

\* a goroutine started by a session is at a lookup of the registry by user id
LooksUp(t) == t.from # 0 /\ t.pc \in {"cl_lookup", "e_lookup"}

\* the goroutine takes its step now
Steps(t) == CopiesIn(t, tasks') < CopiesIn(t, tasks)

\* C28: cleanupConnection deletes the session from the registry before any
\* other step and then cancels, closes the audio stop channel, closes the
\* peer connection and sends QUIT, in this order; hence a callback of the
\* session that looks the user up after the cleanup has started finds no
\* session and returns
C28_CleanupOrderAndLateLookups ==
    [][/\ \A sid \in DOMAIN sess' : CleanupInOrder(sid)'
       /\ \A t \in BagToSet(tasks) :
              (LooksUp(t) /\ sess[t.from].taken > 0 /\ Steps(t))
                  => connections[t.user] = 0]_vars


----------------------------------------------------------------------------
(* Failures of the offer handler                                           *)

OfferFailed(sid) == sid \in DOMAIN sess /\ sess[sid].offerFailed

\* the state is out of the registry and its peer connection is closed
RemovedAndClosed(sid) ==
    /\ sid \in DOMAIN sess
    /\ connections[sess[sid].user] # sid
    /\ sess[sid].pcClose > 0

\* C29: when a step of the offer handler fails after the registration
\* (remote description, answer, local description, sending the answer) the
\* session is torn down: it leaves the registry, its peer connection is
\* closed, and iceReady is never set for it
C29_FailedOfferTornDown ==
    \A sid \in 1..MaxOffers :
        /\ [](OfferFailed(sid) => ~sess[sid].iceReady)
        /\ OfferFailed(sid) ~> RemovedAndClosed(sid)


----------------------------------------------------------------------------
(* One reconnect loop at a time                                            *)

\* a reconnectWithBackoff call has been entered and has not returned
LoopRunning == rcPc # "idle"

\* C30: at most one reconnect loop runs at a time: a handleDisconnect call
\* that starts while a loop is running, whether it comes from the reader,
\* from the keepalive or from both, returns without starting a loop and
\* without an attempt; and a loop runs only between the setting and the
\* clearing of isRetrying
C30_SingleReconnectLoop ==
    [][/\ (hdPending' < hdPending /\ LoopRunning) =>
              UNCHANGED <<isRetrying, rcPc, retryInterval, attempts, waits,
                          failed, rcErr, reconnected, conn, connGen>>
       /\ LoopRunning' <=> isRetrying']_vars

\* two handleDisconnect calls have found the loop running and returned, and
\* the loop is past its first wait
C30_Witness ==
    /\ skipped >= 2
    /\ isRetrying
    /\ rcPc = "attempt"
    /\ attempts >= 1


----------------------------------------------------------------------------
(* Which connection a reconnect loop closes                                *)

\* attemptReconnect closes a connection: c.conn.Close(); c.conn = nil
ClosesConnection == rcPc = "attempt" /\ conn # 0 /\ conn' = 0

\* C31: the reconnect loop closes a connection only when the failure that
\* started the loop was seen on that same connection: a read or ping error
\* seen on a connection already replaced never makes a loop close the new one
C31_ClosesOnlyTheFailedConnection ==
    [][ClosesConnection => hdConn.loop = conn]_vars


----------------------------------------------------------------------------
(* The transport's tasks across reconnects                                 *)

\* the handleMessages tasks that are reading the current connection, or
\* handling a frame they read from it
RunningReaders ==
    {k \in DOMAIN readers :
        /\ readers[k].pc \in {"read", "lookup", "deliver"}
        /\ readers[k].cn = conn}

\* the pingPong tasks that go on pinging
RunningPingers == {k \in DOMAIN pingers : pingers[k] = "run"}

\* C32: at every moment at most one reader task and at most one keepalive
\* task of the transport are running, across disconnects and reconnects
C32_OneReaderOneKeepalive ==
    /\ Cardinality(RunningReaders) <= 1
    /\ Cardinality(RunningPingers) <= 1


----------------------------------------------------------------------------
(* The DM manager, checked under SpecDm and SpecDmInit                     *)

\* the connections installed by a successful reconnect
Reconnected(c) == c > 1

\* C33: after a successful reconnect no ChannelMessageSend is written to the
\* new connection before a ClanJoin has succeeded on that connection,
\* however sendDm interleaves with the reconnected handler
C33_NoDmBeforeRejoin ==
    \A n \in DOMAIN dmSends :
        Reconnected(dmSends[n].cn) => dmSends[n].joined

\* the ClanJoin requests written and not yet answered
InFlight == {n \in DOMAIN joins : joins[n].res = "flight"}

\* C34: with several sendDm calls running while the DM clan is not ready, at
\* most one ClanJoin is in flight at any time, no ClanJoin is issued after
\* one has succeeded, and no ChannelMessageSend is written before a
\* ClanJoin has been acknowledged
C34_OneJoinForConcurrentSends ==
    /\ Cardinality(InFlight) <= 1
    /\ \A n \in DOMAIN joins : joins[n].res = "ok" => n = Len(joins)
    /\ \A n \in DOMAIN dmSends : dmSends[n].joined

\* a sendDm call's ClanJoin has succeeded while another sendDm call, which
\* had found the flag false, waits for readyMu
C34_Witness ==
    \E t, u \in DmSenders :
        /\ joins # <<>>
        /\ joins[Len(joins)].by = t
        /\ joins[Len(joins)].res = "ok"
        /\ dmTask[u].pc = "lock"

\* the errors with which sendDm gives up for lack of a connection: the one
\* of ensureDMReady and the one after the wait
NoConnectionErrors == {"notReady", "notConnected"}

\* C35: a sendDm call made while the transport is not connected gives up for
\* lack of a connection only after its ten polls of 500 ms, whether or not
\* the DM clan had been initialized
C35_GivesUpOnlyAfterFullWait ==
    \A t \in DmSenders :
        (/\ dmTask[t].down
         /\ dmTask[t].pc = "failed"
         /\ dmTask[t].err \in NoConnectionErrors)
            => dmTask[t].polls = MaxPolls


----------------------------------------------------------------------------
(* The attempts of a capture loop, checked under SpecAttempts              *)

\* C36: in one capture loop at most MaxAttempts recognition POSTs are made,
\* whatever the samples, keyframes and recognition results
C36_AtMostMaxAttemptsPosts ==
    \A i \in DOMAIN capLog : capLog[i].posts <= MaxAttempts

\* a loop that has made MaxAttempts POSTs, none of them answered
C36_Witness ==
    \E i \in DOMAIN capLog :
        capLog[i].posts = MaxAttempts /\ caps[i].successCount = 0

\* C37: a capture loop fails with reason max_attempts only after MaxAttempts
\* images have been POSTed to the recognition endpoint: keyframes on which
\* no face was found or the encoding failed do not count
C37_CapCountsSubmissions ==
    \A i \in DOMAIN caps :
        caps[i].reason = "max_attempts" => capLog[i].posts >= MaxAttempts

\* C38: within one capture loop two consecutive recognition POSTs are at
\* least the capture interval apart
C38_SubmissionsSpaced ==
    \A i \in DOMAIN capLog : ~capLog[i].closePosts


----------------------------------------------------------------------------
(* The DM that ends a location reply, checked under SpecConfirm            *)

\* the DMs HandleLocationReply has sent for a confirmation: the success DM
\* and the failure DM
ReplyDMs(id) == confs[id].successDMs + confs[id].invalidDMs

\* C39: every location reply that consumes a pending confirmation ends with
\* exactly one DM to the user, the success DM or the failure DM, whatever
\* the validation and the status-update call give
C39_ReplyEndsWithOneDM ==
    \A id \in DOMAIN confs :
        confs[id].replyPc = "done" => ReplyDMs(id) = 1


----------------------------------------------------------------------------
(* PlayNow against the prompt being played, checked under SpecPlayNow      *)

\* C40: PlayNow(item) interrupts the prompt being played at its next page
\* boundary: once the item is waiting in the queue, the prompt being played
\* writes at most the page it was at
C40_PlayNowInterrupts ==
    \A sid \in DOMAIN sess : sess[sid].late <= 1

====
